---- MODULE Spec2Model ----
(***************************************************************************)
(* Model of the expiring containers of za-utils: ExpiringMap               *)
(* (expiring-map.ts) and ExpiringSet (expiring-set.ts), with the runtime   *)
(* timer facility (setTimeout / clearTimeout) and toSync (async.ts).       *)
(*                                                                         *)
(* One ExpiringMap and one ExpiringSet are driven by the same sequence of  *)
(* calls, timer fires and callback completions.  A container state is a    *)
(* record: map (the #map field, in insertion order), timers (the timers    *)
(* this container has armed in the runtime and not yet fired or cleared),  *)
(* inflight (asynchronous expiry callbacks that have been started and have *)
(* not settled), micro (the promise reactions queued as microtasks, oldest *)
(* first) and the observation logs invoked, seen, sunk, unhandled, result, *)
(* allIds, allCalled, allPromise, which record what the user-supplied      *)
(* callbacks and the callers of expire/expireAll get to see; iter is the   *)
(* iterator made last by entries/keys/values and what it has delivered.    *)
(***************************************************************************)
EXTENDS Integers, Sequences, FiniteSets, TLC

\* Number of entry insertions (lifecycles) in one run.
MaxSets == 2
\* Last clock value.
MaxTime == 1

\* JavaScript undefined in a number-typed position (expiry, timer, expiryMs).
Undefined == -1
\* JavaScript undefined in a function-typed position.
NoCallback == "undefined"
\* JavaScript undefined in a value-typed position (get on a miss, a void return).
NoValue == "undefined"

Keys == {1, 2}
Values == {"a", "b"}
ExpiryMsValues == {1, 2}
\* User-supplied expiry callbacks: "f" is given to set/add, "g" is a
\* defaultExpiryCallback.
Callbacks == {"f", "g"}
\* What a call of an expiry callback does: it returns, it throws, or it
\* returns a promise, which settles later as one of Outcomes.
Behaviours == {"returns", "throws", "async"}
Outcomes == {"resolves", "rejects"}
\* Behaviours of a user-supplied expireErrorCallback.
ErrorCallbacks == {"returns", "throws"}
\* Timer handles and entry lifecycles, one per insertion.
MaxIds == MaxSets + 1
Ids == 1..MaxIds

VARIABLES options, now, nextId, emap, eset, last

\* async.ts and mutex.ts: owned is Mutex.#owned, tasks the calls of
\* acquire() and delayUntil() in progress, one per caller, jobs the
\* microtask queue of the runtime (callers whose await can resume), ghost
\* what the calls returned so far.
VARIABLES owned, tasks, jobs, ghost

\* eventemitter.ts: emitter is the listener list of the EventEmitter for
\* each event name, whens the promises made by resolveWhen on it.
VARIABLES emitter, whens

\* promise.ts: inputs are the promises given to resolveWhenAny, combined the
\* promise it returned, reactions the microtask queue of promise reactions.
VARIABLES inputs, combined, reactions

containerVars == <<options, nextId, emap, eset, last>>
asyncVars == <<owned, tasks, jobs, ghost>>
eventVars == <<emitter, whens>>
anyVars == <<inputs, combined, reactions>>
vars == <<options, now, nextId, emap, eset, last, owned, tasks, jobs, ghost,
          emitter, whens, inputs, combined, reactions>>

IsNumber(x) == x # Undefined
IsFunction(f) == f # NoCallback

\* x ?? y
Nullish(x, y) == IF x = Undefined THEN y ELSE x
NullishCb(x, y) == IF x = NoCallback THEN y ELSE x

(***************************************************************************)
(* The native Map held in #map: a sequence of entries in insertion order.  *)
(***************************************************************************)
JsMapHas(m, key) == \E i \in 1..Len(m) : m[i].key = key
JsMapGet(m, key) == m[CHOOSE i \in 1..Len(m) : m[i].key = key]
JsMapDelete(m, key) == SelectSeq(m, LAMBDA e : e.key # key)
JsMapSet(m, key, entry) ==
    IF JsMapHas(m, key)
    THEN [i \in 1..Len(m) |-> IF m[i].key = key THEN entry ELSE m[i]]
    ELSE Append(m, entry)
JsMapKeys(m) == [i \in 1..Len(m) |-> m[i].key]

\* clearTimeout(handle); clearTimeout(undefined) does nothing.
clearTimeout(timers, handle) == {t \in timers : t.handle # handle}

EmptyContainer ==
    [map |-> <<>>, timers |-> {}, inflight |-> {},
     invoked |-> [i \in Ids |-> 0],
     seen |-> [i \in Ids |-> "none"],
     sunk |-> [i \in Ids |-> 0],
     unhandled |-> [i \in Ids |-> 0],
     result |-> [i \in Ids |-> "none"],
     allIds |-> {}, allCalled |-> FALSE,
     allLeft |-> {}, allInner |-> "none", allPromise |-> "none",
     micro |-> <<>>,
     each |-> [visited |-> <<>>, pending |-> {}, left |-> {}, inner |-> "none",
               promise |-> "none"],
     loop |-> [active |-> FALSE, pos |-> 0, present |-> {}, expired |-> <<>>,
               ids |-> <<>>],
     iter |-> [which |-> "none", pos |-> 0, done |-> FALSE, out |-> <<>>]]

\* An operation's outcome: the container afterwards and the value returned.
R(c, ret) == [c |-> c, ret |-> ret]

\* The runtime's microtask queue: a promise reaction waits in it until the
\* synchronous code that queued it has returned.  kind names the code the
\* reaction runs, id the lifecycle it belongs to, outcome how the promise
\* it reacts to was settled.  A reaction that changes nothing recorded
\* here (a .catch passed by a fulfilled promise) is not queued.
Queue(c, kind, id, outcome) ==
    [c EXCEPT !.micro = Append(@, [kind |-> kind, id |-> id, outcome |-> outcome])]

(***************************************************************************)
(* toSync: the .catch handler run when the wrapped async function rejects. *)
(* A throw of errorCallback rejects the promise returned by .catch, which  *)
(* nobody handles.                                                         *)
(***************************************************************************)
toSync(c, id, errorCallback) ==
    IF IsFunction(errorCallback)
    THEN [c EXCEPT !.sunk[id] = @ + 1,
                   !.unhandled[id] = IF errorCallback = "throws" THEN @ + 1 ELSE @]
    ELSE c

\* The call expiryCallback(key, value, this): the callback starts running
\* and reads has(key).
CallExpiryCallback(c, id, key) ==
    [c EXCEPT !.invoked[id] = @ + 1,
              !.seen[id] = IF JsMapHas(c.map, key) THEN "present" ELSE "absent"]

(***************************************************************************)
(* ExpiringMap                                                             *)
(***************************************************************************)
\* Variant of delete that forgets clearTimeout.
MapDelete_KeepTimer(c, key) ==
    R([c EXCEPT !.map = JsMapDelete(@, key)],
      IF JsMapHas(c.map, key) THEN "true" ELSE "false")

\* Variant of delete that reads .timer of a missing entry (no ?.) and throws.
MapDelete_NoOptionalChain(c, key) ==
    IF JsMapHas(c.map, key)
    THEN R([c EXCEPT !.timers = clearTimeout(@, JsMapGet(c.map, key).timer),
                     !.map = JsMapDelete(@, key)],
           "true")
    ELSE R(c, "thrown")

MapDelete(c, key) ==
    LET timer == IF JsMapHas(c.map, key) THEN JsMapGet(c.map, key).timer ELSE Undefined
    IN R([c EXCEPT !.timers = clearTimeout(@, timer),
                   !.map = JsMapDelete(@, key)],
         IF JsMapHas(c.map, key) THEN "true" ELSE "false")

RECURSIVE MapClearLoop(_)
MapClearLoop(c) ==
    IF c.map = <<>> THEN c ELSE MapClearLoop(MapDelete(c, Head(c.map).key).c)

\* Variant of clear whose iteration stops after the first deletion.
MapClear_FirstOnly(c) ==
    R(IF c.map = <<>> THEN c ELSE MapDelete(c, Head(c.map).key).c, NoValue)

MapClear(c) == R(MapClearLoop(c), NoValue)

MapHas(c, key) == JsMapHas(c.map, key)
MapGet(c, key) == IF JsMapHas(c.map, key) THEN JsMapGet(c.map, key).value ELSE NoValue
MapGetExpiry(c, key) == IF JsMapHas(c.map, key) THEN JsMapGet(c.map, key).expiry ELSE Undefined
MapSize(c) == Len(c.map)

\* The reads as calls: the container afterwards and the value returned.
JsBool(b) == IF b THEN "true" ELSE "false"
MapHasCall(c, key) == R(c, JsBool(MapHas(c, key)))
MapGetExpiryCall(c, key) == R(c, MapGetExpiry(c, key))
MapSizeCall(c) == R(c, MapSize(c))

\* Variant of set without the leading this.delete(key).
MapSet_NoDelete(c, key, value, expiryMsArg, expiryCallbackArg) ==
    LET expiryMs == Nullish(expiryMsArg, options.defaultExpiryMs)
        expiryCallback == NullishCb(expiryCallbackArg, options.defaultExpiryCallback)
        expiry == IF IsNumber(expiryMs) THEN now + expiryMs ELSE Undefined
        timer == IF IsNumber(expiryMs) THEN nextId ELSE Undefined
        armed == IF IsNumber(expiryMs)
                 THEN {[handle |-> nextId, due |-> now + expiryMs, key |-> key,
                        value |-> value, expiryCallback |-> expiryCallback]}
                 ELSE {}
    IN R([c EXCEPT !.timers = @ \cup armed,
                   !.map = JsMapSet(@, key,
                               [key |-> key, value |-> value, expiry |-> expiry,
                                timer |-> timer, expiryCallback |-> expiryCallback,
                                id |-> nextId])],
         "this")

\* Variant of set in which the container defaults win over the arguments.
MapSet_DefaultFirst(c, key, value, expiryMsArg, expiryCallbackArg) ==
    LET c1 == MapDelete(c, key).c
        expiryMs == Nullish(options.defaultExpiryMs, expiryMsArg)
        expiryCallback == NullishCb(options.defaultExpiryCallback, expiryCallbackArg)
        expiry == IF IsNumber(expiryMs) THEN now + expiryMs ELSE Undefined
        timer == IF IsNumber(expiryMs) THEN nextId ELSE Undefined
        armed == IF IsNumber(expiryMs)
                 THEN {[handle |-> nextId, due |-> now + expiryMs, key |-> key,
                        value |-> value, expiryCallback |-> expiryCallback]}
                 ELSE {}
    IN R([c1 EXCEPT !.timers = @ \cup armed,
                    !.map = JsMapSet(@, key,
                                [key |-> key, value |-> value, expiry |-> expiry,
                                 timer |-> timer, expiryCallback |-> expiryCallback,
                                 id |-> nextId])],
         "this")

\* Variant of set that arms a timer also when there is no expiryMs.
MapSet_AlwaysTimer(c, key, value, expiryMsArg, expiryCallbackArg) ==
    LET c1 == MapDelete(c, key).c
        expiryMs == Nullish(expiryMsArg, options.defaultExpiryMs)
        expiryCallback == NullishCb(expiryCallbackArg, options.defaultExpiryCallback)
        expiry == IF IsNumber(expiryMs) THEN now + expiryMs ELSE Undefined
        due == IF IsNumber(expiryMs) THEN now + expiryMs ELSE now
    IN R([c1 EXCEPT !.timers = @ \cup
                        {[handle |-> nextId, due |-> due, key |-> key,
                          value |-> value, expiryCallback |-> expiryCallback]},
                    !.map = JsMapSet(@, key,
                                [key |-> key, value |-> value, expiry |-> expiry,
                                 timer |-> nextId, expiryCallback |-> expiryCallback,
                                 id |-> nextId])],
         "this")

MapSet(c, key, value, expiryMsArg, expiryCallbackArg) ==
    LET c1 == MapDelete(c, key).c
        expiryMs == Nullish(expiryMsArg, options.defaultExpiryMs)
        expiryCallback == NullishCb(expiryCallbackArg, options.defaultExpiryCallback)
        expiry == IF IsNumber(expiryMs) THEN now + expiryMs ELSE Undefined
        timer == IF IsNumber(expiryMs) THEN nextId ELSE Undefined
        armed == IF IsNumber(expiryMs)
                 THEN {[handle |-> nextId, due |-> now + expiryMs, key |-> key,
                        value |-> value, expiryCallback |-> expiryCallback]}
                 ELSE {}
    IN R([c1 EXCEPT !.timers = @ \cup armed,
                    !.map = JsMapSet(@, key,
                                [key |-> key, value |-> value, expiry |-> expiry,
                                 timer |-> timer, expiryCallback |-> expiryCallback,
                                 id |-> nextId])],
         "this")

\* Variant of the timer function that runs the callback and leaves the entry.
MapTimerBody_NoDelete(c, t, b) ==
    LET c2 == CallExpiryCallback(c, t.handle, t.key)
    IN IF IsFunction(t.expiryCallback)
       THEN CASE b = "returns" -> c2
              [] b = "throws" -> Queue(c2, "catch", t.handle, "rejected")
              [] OTHER ->
                    [c2 EXCEPT !.inflight = @ \cup
                        {[id |-> t.handle, key |-> t.key, path |-> "timer"]}]
       ELSE c

\* The function given to setTimeout by set: toSync(async () => {...}).
MapTimerBody(c, t, b) ==
    LET c1 == MapDelete(c, t.key).c
        c2 == CallExpiryCallback(c1, t.handle, t.key)
    IN IF IsFunction(t.expiryCallback)
       THEN CASE b = "returns" -> c2
              [] b = "throws" -> Queue(c2, "catch", t.handle, "rejected")
              [] OTHER ->
                    [c2 EXCEPT !.inflight = @ \cup
                        {[id |-> t.handle, key |-> t.key, path |-> "timer"]}]
       ELSE c1

\* Variant of clearExpiry that forgets clearTimeout.
MapClearExpiry_KeepTimer(c, key) ==
    IF JsMapHas(c.map, key)
    THEN LET entry == JsMapGet(c.map, key)
         IN R([c EXCEPT !.map = JsMapSet(@, key,
                                   [entry EXCEPT !.expiry = Undefined, !.timer = Undefined])],
              "true")
    ELSE R(c, "false")

MapClearExpiry(c, key) ==
    IF JsMapHas(c.map, key)
    THEN LET entry == JsMapGet(c.map, key)
         IN R([c EXCEPT !.timers = clearTimeout(@, entry.timer),
                        !.map = JsMapSet(@, key,
                                   [entry EXCEPT !.expiry = Undefined, !.timer = Undefined])],
              "true")
    ELSE R(c, "false")

\* Variant of setExpiry without the has(key) guard.
MapSetExpiry_NoGuard(c, key, msFromNow) ==
    R(MapSet(c, key, NoValue, msFromNow, NoCallback).c, "true")

\* Variant of setExpiry that does not pass the stored callback on.
MapSetExpiry_DropCallback(c, key, msFromNow) ==
    IF JsMapHas(c.map, key)
    THEN R(MapSet(c, key, JsMapGet(c.map, key).value, msFromNow, NoCallback).c, "true")
    ELSE R(c, "false")

\* Variant that rewrites the entry at its position instead of re-inserting it.
MapSetExpiry_InPlace(c, key, msFromNow) ==
    IF JsMapHas(c.map, key)
    THEN LET entry == JsMapGet(c.map, key)
             moved == MapSet(c, key, entry.value, msFromNow, entry.expiryCallback).c
             order == JsMapKeys(c.map)
         IN R([moved EXCEPT !.map = [i \in 1..Len(order) |->
                                         JsMapGet(moved.map, order[i])]], "true")
    ELSE R(c, "false")

MapSetExpiry(c, key, msFromNow) ==
    IF JsMapHas(c.map, key)
    THEN LET entry == JsMapGet(c.map, key)
         IN R(MapSet(c, key, entry.value, msFromNow, entry.expiryCallback).c, "true")
    ELSE R(c, "false")

\* Variant of setMinimumExpiry that always applies the given delay.
MapSetMinimumExpiry_Always(c, key, minimumMsFromNow) ==
    IF IsNumber(MapGetExpiry(c, key))
    THEN MapSetExpiry(c, key, minimumMsFromNow)
    ELSE R(c, "false")

\* Variant of setMinimumExpiry that treats a missing expiry as an early one.
MapSetMinimumExpiry_Assign(c, key, minimumMsFromNow) ==
    LET oldExpiry == MapGetExpiry(c, key)
    IN IF JsMapHas(c.map, key)
       THEN IF ~IsNumber(oldExpiry) \/ now + minimumMsFromNow > oldExpiry
            THEN MapSetExpiry(c, key, minimumMsFromNow)
            ELSE R(c, "true")
       ELSE R(c, "false")

MapSetMinimumExpiry(c, key, minimumMsFromNow) ==
    LET oldExpiry == MapGetExpiry(c, key)
        targetExpiry == now + minimumMsFromNow
    IN IF IsNumber(oldExpiry)
       THEN IF targetExpiry > oldExpiry
            THEN MapSetExpiry(c, key, minimumMsFromNow)
            ELSE R(c, "true")
       ELSE R(c, "false")

\* Variant of get that restarts the TTL of the entry it reads.
MapGetCall_Touch(c, key) ==
    IF IsNumber(MapGetExpiry(c, key))
    THEN R(MapSetExpiry(c, key, 1).c, MapGet(c, key))
    ELSE R(c, MapGet(c, key))

MapGetCall(c, key) == R(c, MapGet(c, key))

\* Variant of expire that calls the callback and leaves the entry.
MapExpire_NoDelete(c, key, b) ==
    IF JsMapHas(c.map, key)
    THEN LET entry == JsMapGet(c.map, key)
             c2 == CallExpiryCallback(c, entry.id, key)
             ret == IF ~IsFunction(entry.expiryCallback) THEN "true"
                    ELSE IF b = "throws" THEN "rejected" ELSE "pending"
             c3 == IF IsFunction(entry.expiryCallback) THEN c2 ELSE c
             c4 == IF ret # "pending" THEN c3
                   ELSE IF b = "returns" THEN Queue(c3, "expire", entry.id, "true")
                   ELSE [c3 EXCEPT !.inflight = @ \cup
                            {[id |-> entry.id, key |-> key, path |-> "expire"]}]
         IN R([c4 EXCEPT !.result[entry.id] = ret], ret)
    ELSE R(c, "false")

\* Variant of expire that calls the callback before it deletes the entry.
MapExpire_CallbackFirst(c, key, b) ==
    IF JsMapHas(c.map, key)
    THEN LET entry == JsMapGet(c.map, key)
             c1 == IF IsFunction(entry.expiryCallback)
                   THEN CallExpiryCallback(c, entry.id, key) ELSE c
             c2 == MapDelete(c1, key).c
             ret == IF ~IsFunction(entry.expiryCallback) THEN "true"
                    ELSE IF b = "throws" THEN "rejected" ELSE "pending"
             c4 == IF ret # "pending" THEN c2
                   ELSE IF b = "returns" THEN Queue(c2, "expire", entry.id, "true")
                   ELSE [c2 EXCEPT !.inflight = @ \cup
                            {[id |-> entry.id, key |-> key, path |-> "expire"]}]
         IN R([c4 EXCEPT !.result[entry.id] = ret], ret)
    ELSE R(c, "false")

\* Variant of expire that wraps the callback the way the timer function
\* does: a failure goes to expireErrorCallback and the promise resolves.
MapExpire_Swallow(c, key, b) ==
    IF JsMapHas(c.map, key)
    THEN LET entry == JsMapGet(c.map, key)
             c1 == MapDelete(c, key).c
             c2 == CallExpiryCallback(c1, entry.id, key)
         IN IF IsFunction(entry.expiryCallback)
            THEN CASE b = "returns" ->
                        R([Queue(c2, "expire", entry.id, "true")
                              EXCEPT !.result[entry.id] = "pending"], "pending")
                   [] b = "throws" ->
                        R([toSync(c2, entry.id, options.expireErrorCallback)
                              EXCEPT !.result[entry.id] = "true"], "true")
                   [] OTHER ->
                        R([c2 EXCEPT !.result[entry.id] = "true",
                                     !.inflight = @ \cup
                                        {[id |-> entry.id, key |-> key, path |-> "timer"]}],
                          "true")
            ELSE R([c1 EXCEPT !.result[entry.id] = "true"], "true")
    ELSE R(c, "false")

\* Variant of expire without the await: the promise resolves at once
\* whatever the callback returns.
MapExpire_NoAwait(c, key, b) ==
    IF JsMapHas(c.map, key)
    THEN LET entry == JsMapGet(c.map, key)
             c1 == MapDelete(c, key).c
             c2 == CallExpiryCallback(c1, entry.id, key)
             ret == IF IsFunction(entry.expiryCallback) /\ b = "throws"
                    THEN "rejected" ELSE "true"
             c3 == IF IsFunction(entry.expiryCallback) THEN c2 ELSE c1
         IN R([c3 EXCEPT !.result[entry.id] = ret], ret)
    ELSE R(c, "false")

\* expire up to its first suspension; ret is the state of the promise it
\* returns as the call returns.  With a callback the function stops at its
\* await: after a callback that returned, the continuation (return true)
\* is a queued microtask; after one that threw, the promise is rejected.
MapExpire(c, key, b) ==
    IF JsMapHas(c.map, key)
    THEN LET entry == JsMapGet(c.map, key)
             c1 == MapDelete(c, key).c
             c2 == CallExpiryCallback(c1, entry.id, key)
             ret == IF ~IsFunction(entry.expiryCallback) THEN "true"
                    ELSE IF b = "throws" THEN "rejected" ELSE "pending"
             c3 == IF IsFunction(entry.expiryCallback) THEN c2 ELSE c1
             c4 == IF ret # "pending" THEN c3
                   ELSE IF b = "returns" THEN Queue(c3, "expire", entry.id, "true")
                   ELSE [c3 EXCEPT !.inflight = @ \cup
                            {[id |-> entry.id, key |-> key, path |-> "expire"]}]
         IN R([c4 EXCEPT !.result[entry.id] = ret], ret)
    ELSE R(c, "false")

\* Variant of the loop of expireAll that ends at the first expire whose
\* callback throws.
RECURSIVE MapExpireAllLoop_StopOnThrow(_, _)
MapExpireAllLoop_StopOnThrow(c, bs) ==
    IF c.map = <<>> THEN c
    ELSE LET r == MapExpire(c, Head(c.map).key, bs[Head(c.map).key])
         IN IF r.ret = "rejected" THEN r.c ELSE MapExpireAllLoop_StopOnThrow(r.c, bs)

RECURSIVE MapExpireAllLoop(_, _)
MapExpireAllLoop(c, bs) ==
    IF c.map = <<>> THEN c
    ELSE MapExpireAllLoop(MapExpire(c, Head(c.map).key, bs[Head(c.map).key]).c, bs)

\* Promise.all(expiries), expiries holding the promises of expire for ids:
\* it reacts to each promise (at once when the promise is settled, else
\* when it settles) and is fulfilled as it is called only for no promise.
RECURSIVE PromiseAllThen(_, _)
PromiseAllThen(c, ids) ==
    IF ids = <<>> THEN c
    ELSE PromiseAllThen(IF c.result[Head(ids)] \in {"true", "rejected"}
                        THEN Queue(c, "allElement", Head(ids), c.result[Head(ids)])
                        ELSE c,
                        Tail(ids))

\* await Promise.all(expiries): expireAll stops here, its promise pending;
\* the continuation is queued once the promise of Promise.all is settled.
PromiseAll(c, ids) ==
    LET c1 == [c EXCEPT !.allIds = {ids[i] : i \in 1..Len(ids)},
                        !.allCalled = TRUE,
                        !.allLeft = {ids[i] : i \in 1..Len(ids)},
                        !.allInner = IF ids = <<>> THEN "resolved" ELSE "pending",
                        !.allPromise = "pending"]
    IN IF ids = <<>> THEN Queue(c1, "allAwait", 0, "resolved")
       ELSE PromiseAllThen(c1, ids)

\* Variant of expireAll that removes the entries the way clear does.
MapExpireAll_AsClear(c, bs) ==
    LET ids == [i \in 1..Len(c.map) |-> c.map[i].id]
    IN R(PromiseAll([MapClearLoop(c) EXCEPT
                        !.result = [i \in Ids |->
                                       IF \E n \in 1..Len(ids) : ids[n] = i
                                       THEN "true" ELSE @[i]]],
                    ids),
         "pending")

\* bs[key]: what the callback of the entry at key does when called.
MapExpireAll(c, bs) ==
    LET ids == [i \in 1..Len(c.map) |-> c.map[i].id]
    IN R(PromiseAll(MapExpireAllLoop(c, bs), ids), "pending")

\* expireAll() one iteration at a time, for callbacks that call back into
\* the container.  loop is the state of the for-of over this.keys(): the
\* native iterator walks the entries in insertion order and is live (an
\* entry appended during the walk is visited, a deleted one is skipped);
\* pos is the lifecycle of the entry it yielded last, present the keys held
\* when expireAll was called, expired the keys passed to expire so far, ids
\* their lifecycles.
ReentrantBehaviours == {"returns", "reinsert", "insert"}
OtherKey(key) == CHOOSE k \in Keys : k # key

MapExpireAllBegin(c) ==
    R([c EXCEPT !.loop = [active |-> TRUE, pos |-> 0,
                          present |-> {c.map[i].key : i \in 1..Len(c.map)},
                          expired |-> <<>>, ids |-> <<>>]],
      "pending")

MapExpireAllHasNext(c) == \E i \in 1..Len(c.map) : c.map[i].id > c.loop.pos
MapExpireAllNext(c) ==
    c.map[CHOOSE i \in 1..Len(c.map) :
              /\ c.map[i].id > c.loop.pos
              /\ \A j \in 1..Len(c.map) : c.map[j].id > c.loop.pos => i <= j]

\* expire(key) with a synchronous callback that returns, or first calls
\* map.set(key, value, {expiryCallback}) with its own key and itself, or
\* with the other key.
MapExpireReentrant(c, key, b) ==
    LET entry == JsMapGet(c.map, key)
        c1 == MapDelete(c, key).c
        c2 == CallExpiryCallback(c1, entry.id, key)
        c3 == IF ~IsFunction(entry.expiryCallback) THEN c1
              ELSE CASE b = "reinsert" ->
                            MapSet(c2, key, entry.value, Undefined, entry.expiryCallback).c
                     [] b = "insert" ->
                            MapSet(c2, OtherKey(key), entry.value, Undefined,
                                   entry.expiryCallback).c
                     [] OTHER -> c2
    IN IF IsFunction(entry.expiryCallback)
       THEN R([Queue(c3, "expire", entry.id, "true") EXCEPT !.result[entry.id] = "pending"],
              "pending")
       ELSE R([c3 EXCEPT !.result[entry.id] = "true"], "true")

MapExpireAllVisit(c, b) ==
    LET entry == MapExpireAllNext(c)
        c1 == MapExpireReentrant(c, entry.key, b).c
    IN R([c1 EXCEPT !.loop.pos = entry.id,
                    !.loop.expired = Append(@, entry.key),
                    !.loop.ids = Append(@, entry.id)],
         "pending")

\* The loop has ended: await Promise.all(expiries).
MapExpireAllEnd(c) == R(PromiseAll([c EXCEPT !.loop.active = FALSE], c.loop.ids), "pending")

\* The iterators: entries() yields [key, value], values() the values,
\* keys() the keys of #map, the default iterator is entries().
MapEntries(c) == [i \in 1..Len(c.map) |-> <<c.map[i].key, c.map[i].value>>]
MapKeys(c) == JsMapKeys(c.map)
MapValues(c) == [i \in 1..Len(c.map) |-> MapEntries(c)[i][2]]
MapIterator(c) == MapEntries(c)

\* The iterators are lazy and live: entries(), keys(), values() and
\* [Symbol.iterator]() return an iterator over #map, and each next() runs
\* the generator to its next yield.  The native iterator walks the entries
\* in insertion order from the entry it delivered last (pos is the
\* lifecycle of that entry): an entry appended since is reached, a deleted
\* one is not, and an iterator that has ended stays ended.  iter is the
\* iterator made last and out lists what it has delivered.
JsMapAfter(m, pos) == SelectSeq(m, LAMBDA e : e.id > pos)
Listed(m) == [i \in 1..Len(m) |-> [id |-> m[i].id, key |-> m[i].key]]
IteratorResult(value, done) == [value |-> value, done |-> done]

MapElement(which, e) ==
    CASE which = "keys" -> e.key
      [] which = "values" -> e.value
      [] OTHER -> <<e.key, e.value>>

MapIterate(c, which) ==
    R([c EXCEPT !.iter = [which |-> which, pos |-> 0, done |-> FALSE, out |-> <<>>]],
      "iterator")

MapIteratorNext(c) ==
    LET rest == JsMapAfter(c.map, c.iter.pos)
    IN IF c.iter.done \/ rest = <<>>
       THEN R([c EXCEPT !.iter.done = TRUE], IteratorResult(NoValue, TRUE))
       ELSE R([c EXCEPT !.iter.pos = Head(rest).id,
                        !.iter.out = Append(@, [id |-> Head(rest).id, key |-> Head(rest).key])],
              IteratorResult(MapElement(c.iter.which, Head(rest)), FALSE))

\* The loop of forEach: callbackfn(value, key, this) for each entry; a
\* callback that throws ends the loop and rejects the promise of forEach.
\* Variant of the loop that awaits each callback before calling the next.
RECURSIVE MapForEachLoop_Sequential(_, _, _)
MapForEachLoop_Sequential(c, entries, bs) ==
    IF entries = <<>> THEN c
    ELSE LET entry == Head(entries)
             c1 == [c EXCEPT !.each.visited = Append(@, <<entry[2], entry[1]>>)]
         IN CASE bs[entry[1]] = "throws" -> [c1 EXCEPT !.each.promise = "rejected"]
              [] bs[entry[1]] = "async" -> [c1 EXCEPT !.each.pending = @ \cup {entry[1]}]
              [] OTHER -> MapForEachLoop_Sequential(c1, Tail(entries), bs)

RECURSIVE MapForEachLoop(_, _, _)
MapForEachLoop(c, entries, bs) ==
    IF entries = <<>> THEN c
    ELSE LET entry == Head(entries)
             c1 == [c EXCEPT !.each.visited = Append(@, <<entry[2], entry[1]>>)]
         IN CASE bs[entry[1]] = "throws" -> [c1 EXCEPT !.each.promise = "rejected"]
              [] bs[entry[1]] = "async" ->
                    MapForEachLoop([c1 EXCEPT !.each.pending = @ \cup {entry[1]}],
                                   Tail(entries), bs)
              [] OTHER -> MapForEachLoop(c1, Tail(entries), bs)

\* Promise.all(promises) of forEach, promises holding what callbackfn
\* returned for keys: a value that is no promise is reacted to at once, a
\* promise when it settles.
RECURSIVE ForEachAllThen(_, _, _)
ForEachAllThen(c, keys, bs) ==
    IF keys = <<>> THEN c
    ELSE ForEachAllThen(IF bs[Head(keys)] = "async" THEN c
                        ELSE Queue(c, "eachElement", Head(keys), "resolved"),
                        Tail(keys), bs)

\* await Promise.all(promises): forEach stops here, its promise pending.
ForEachAll(c, keys, bs) ==
    LET c1 == [c EXCEPT !.each.left = {keys[i] : i \in 1..Len(keys)},
                        !.each.inner = IF keys = <<>> THEN "resolved" ELSE "pending"]
    IN IF keys = <<>> THEN Queue(c1, "eachAwait", 0, "resolved")
       ELSE ForEachAllThen(c1, keys, bs)

\* forEach up to await Promise.all(promises); ret is the state of the
\* promise it returns as the call returns: rejected when a callback threw.
MapForEach(c, bs) ==
    LET c0 == [c EXCEPT !.each = [visited |-> <<>>, pending |-> {}, left |-> {},
                                  inner |-> "none", promise |-> "pending"]]
        c1 == MapForEachLoop(c0, MapEntries(c0), bs)
        c2 == IF c1.each.promise = "pending"
              THEN ForEachAll(c1, MapKeys(c0), bs)
              ELSE c1
    IN R(c2, c2.each.promise)

(***************************************************************************)
(* ExpiringSet: #map is keyed by the value; an entry has no value field.   *)
(***************************************************************************)
SetDelete(c, value) ==
    LET timer == IF JsMapHas(c.map, value) THEN JsMapGet(c.map, value).timer ELSE Undefined
    IN R([c EXCEPT !.timers = clearTimeout(@, timer),
                   !.map = JsMapDelete(@, value)],
         IF JsMapHas(c.map, value) THEN "true" ELSE "false")

RECURSIVE SetClearLoop(_)
SetClearLoop(c) ==
    IF c.map = <<>> THEN c ELSE SetClearLoop(SetDelete(c, Head(c.map).key).c)

SetClear(c) == R(SetClearLoop(c), NoValue)

SetHas(c, value) == JsMapHas(c.map, value)
SetGetExpiry(c, value) == IF JsMapHas(c.map, value) THEN JsMapGet(c.map, value).expiry ELSE Undefined
SetSize(c) == Len(c.map)

SetHasCall(c, value) == R(c, JsBool(SetHas(c, value)))
SetGetExpiryCall(c, value) == R(c, SetGetExpiry(c, value))
SetSizeCall(c) == R(c, SetSize(c))

SetAdd(c, value, expiryMsArg, expiryCallbackArg) ==
    LET c1 == SetDelete(c, value).c
        expiryMs == Nullish(expiryMsArg, options.defaultExpiryMs)
        expiryCallback == NullishCb(expiryCallbackArg, options.defaultExpiryCallback)
        expiry == IF IsNumber(expiryMs) THEN now + expiryMs ELSE Undefined
        timer == IF IsNumber(expiryMs) THEN nextId ELSE Undefined
        armed == IF IsNumber(expiryMs)
                 THEN {[handle |-> nextId, due |-> now + expiryMs, value |-> value,
                        expiryCallback |-> expiryCallback]}
                 ELSE {}
    IN R([c1 EXCEPT !.timers = @ \cup armed,
                    !.map = JsMapSet(@, value,
                                [key |-> value, expiry |-> expiry, timer |-> timer,
                                 expiryCallback |-> expiryCallback, id |-> nextId])],
         "this")

\* The function given to setTimeout by add: toSync(async () => {...}).
SetTimerBody(c, t, b) ==
    LET c1 == SetDelete(c, t.value).c
        c2 == CallExpiryCallback(c1, t.handle, t.value)
    IN IF IsFunction(t.expiryCallback)
       THEN CASE b = "returns" -> c2
              [] b = "throws" -> Queue(c2, "catch", t.handle, "rejected")
              [] OTHER ->
                    [c2 EXCEPT !.inflight = @ \cup
                        {[id |-> t.handle, key |-> t.value, path |-> "timer"]}]
       ELSE c1

SetClearExpiry(c, value) ==
    IF JsMapHas(c.map, value)
    THEN LET entry == JsMapGet(c.map, value)
         IN R([c EXCEPT !.timers = clearTimeout(@, entry.timer),
                        !.map = JsMapSet(@, value,
                                   [entry EXCEPT !.expiry = Undefined, !.timer = Undefined])],
              "true")
    ELSE R(c, "false")

SetSetExpiry(c, value, msFromNow) ==
    IF JsMapHas(c.map, value)
    THEN LET entry == JsMapGet(c.map, value)
         IN R(SetAdd(c, value, msFromNow, entry.expiryCallback).c, "true")
    ELSE R(c, "false")

\* Variant of the set's setMinimumExpiry that also re-arms on equality.
SetSetMinimumExpiry_Ge(c, value, minimumMsFromNow) ==
    LET oldExpiry == SetGetExpiry(c, value)
    IN IF IsNumber(oldExpiry)
       THEN IF now + minimumMsFromNow >= oldExpiry
            THEN SetSetExpiry(c, value, minimumMsFromNow)
            ELSE R(c, "true")
       ELSE R(c, "false")

SetSetMinimumExpiry(c, value, minimumMsFromNow) ==
    LET oldExpiry == SetGetExpiry(c, value)
        targetExpiry == now + minimumMsFromNow
    IN IF IsNumber(oldExpiry)
       THEN IF targetExpiry > oldExpiry
            THEN SetSetExpiry(c, value, minimumMsFromNow)
            ELSE R(c, "true")
       ELSE R(c, "false")

SetExpire(c, value, b) ==
    IF JsMapHas(c.map, value)
    THEN LET entry == JsMapGet(c.map, value)
             c1 == SetDelete(c, value).c
             c2 == CallExpiryCallback(c1, entry.id, value)
             ret == IF ~IsFunction(entry.expiryCallback) THEN "true"
                    ELSE IF b = "throws" THEN "rejected" ELSE "pending"
             c3 == IF IsFunction(entry.expiryCallback) THEN c2 ELSE c1
             c4 == IF ret # "pending" THEN c3
                   ELSE IF b = "returns" THEN Queue(c3, "expire", entry.id, "true")
                   ELSE [c3 EXCEPT !.inflight = @ \cup
                            {[id |-> entry.id, key |-> value, path |-> "expire"]}]
         IN R([c4 EXCEPT !.result[entry.id] = ret], ret)
    ELSE R(c, "false")

RECURSIVE SetExpireAllLoop(_, _)
SetExpireAllLoop(c, bs) ==
    IF c.map = <<>> THEN c
    ELSE SetExpireAllLoop(SetExpire(c, Head(c.map).key, bs[Head(c.map).key]).c, bs)

\* bs[key]: what the callback of the entry at key does when called.
SetExpireAll(c, bs) ==
    LET ids == [i \in 1..Len(c.map) |-> c.map[i].id]
    IN R(PromiseAll(SetExpireAllLoop(c, bs), ids), "pending")

\* expireAll() of the set one iteration at a time, over this.values().
SetExpireAllBegin(c) ==
    R([c EXCEPT !.loop = [active |-> TRUE, pos |-> 0,
                          present |-> {c.map[i].key : i \in 1..Len(c.map)},
                          expired |-> <<>>, ids |-> <<>>]],
      "pending")

SetExpireReentrant(c, value, b) ==
    LET entry == JsMapGet(c.map, value)
        c1 == SetDelete(c, value).c
        c2 == CallExpiryCallback(c1, entry.id, value)
        c3 == IF ~IsFunction(entry.expiryCallback) THEN c1
              ELSE CASE b = "reinsert" ->
                            SetAdd(c2, value, Undefined, entry.expiryCallback).c
                     [] b = "insert" ->
                            SetAdd(c2, OtherKey(value), Undefined, entry.expiryCallback).c
                     [] OTHER -> c2
    IN IF IsFunction(entry.expiryCallback)
       THEN R([Queue(c3, "expire", entry.id, "true") EXCEPT !.result[entry.id] = "pending"],
              "pending")
       ELSE R([c3 EXCEPT !.result[entry.id] = "true"], "true")

SetExpireAllVisit(c, b) ==
    LET entry == MapExpireAllNext(c)
        c1 == SetExpireReentrant(c, entry.key, b).c
    IN R([c1 EXCEPT !.loop.pos = entry.id,
                    !.loop.expired = Append(@, entry.key),
                    !.loop.ids = Append(@, entry.id)],
         "pending")

SetExpireAllEnd(c) == R(PromiseAll([c EXCEPT !.loop.active = FALSE], c.loop.ids), "pending")

\* The iterators: entries() yields [value, value], values() the keys of
\* #map; keys() and the default iterator are values().
SetEntries(c) == [i \in 1..Len(c.map) |-> <<c.map[i].key, c.map[i].key>>]
SetValues(c) == JsMapKeys(c.map)
SetKeys(c) == SetValues(c)
SetIterator(c) == SetValues(c)

\* The set's iterators: entries() yields [v, v]; keys(), values() and
\* [Symbol.iterator]() are the native iterator of the keys of #map.
SetElement(which, e) == IF which = "entries" THEN <<e.key, e.key>> ELSE e.key

SetIterate(c, which) ==
    R([c EXCEPT !.iter = [which |-> which, pos |-> 0, done |-> FALSE, out |-> <<>>]],
      "iterator")

SetIteratorNext(c) ==
    LET rest == JsMapAfter(c.map, c.iter.pos)
    IN IF c.iter.done \/ rest = <<>>
       THEN R([c EXCEPT !.iter.done = TRUE], IteratorResult(NoValue, TRUE))
       ELSE R([c EXCEPT !.iter.pos = Head(rest).id,
                        !.iter.out = Append(@, [id |-> Head(rest).id, key |-> Head(rest).key])],
              IteratorResult(SetElement(c.iter.which, Head(rest)), FALSE))

RECURSIVE SetForEachLoop(_, _, _)
SetForEachLoop(c, entries, bs) ==
    IF entries = <<>> THEN c
    ELSE LET entry == Head(entries)
             c1 == [c EXCEPT !.each.visited = Append(@, <<entry[2], entry[1]>>)]
         IN CASE bs[entry[1]] = "throws" -> [c1 EXCEPT !.each.promise = "rejected"]
              [] bs[entry[1]] = "async" ->
                    SetForEachLoop([c1 EXCEPT !.each.pending = @ \cup {entry[1]}],
                                   Tail(entries), bs)
              [] OTHER -> SetForEachLoop(c1, Tail(entries), bs)

SetForEach(c, bs) ==
    LET c0 == [c EXCEPT !.each = [visited |-> <<>>, pending |-> {}, left |-> {},
                                  inner |-> "none", promise |-> "pending"]]
        c1 == SetForEachLoop(c0, SetEntries(c0), bs)
        c2 == IF c1.each.promise = "pending"
              THEN ForEachAll(c1, SetValues(c0), bs)
              ELSE c1
    IN R(c2, c2.each.promise)

\* Variant in which the key is deleted after the callback has completed
\* instead of before it is called.
Settle_DeleteAfter(c, r, outcome) ==
    LET c0 == [c EXCEPT !.map = JsMapDelete(@, r.key),
                        !.timers = {t \in @ : t.handle \notin
                                       {c.map[n].timer : n \in {m \in 1..Len(c.map) :
                                                                   c.map[m].key = r.key}}}]
        c1 == [c0 EXCEPT !.inflight = @ \ {r}]
    IN IF r.path = "timer"
       THEN IF outcome = "rejects"
            THEN Queue(c1, "timerBody", r.id, "rejected")
            ELSE c1
       ELSE Queue(c1, "expire", r.id, IF outcome = "rejects" THEN "rejected" ELSE "true")

(***************************************************************************)
(* Completion of the promise an asynchronous expiry callback r returned:   *)
(* the function awaiting it (the timer function, or expire) continues in a *)
(* microtask.  On the timer path only a rejection has an effect: it        *)
(* rejects the promise of the timer function, whose .catch is toSync's.    *)
(***************************************************************************)
Settle(c, r, outcome) ==
    LET c1 == [c EXCEPT !.inflight = @ \ {r}]
    IN IF r.path = "timer"
       THEN IF outcome = "rejects"
            THEN Queue(c1, "timerBody", r.id, "rejected")
            ELSE c1
       ELSE Queue(c1, "expire", r.id, IF outcome = "rejects" THEN "rejected" ELSE "true")

\* State of the promise returned by the latest expireAll().
ExpireAllPromise(c) == c.allPromise

\* The promise of expire for lifecycle id settles; Promise.all of the
\* latest expireAll reacts to it while it waits for this promise.
ExpireSettled(c, id, outcome) ==
    LET c1 == [c EXCEPT !.result[id] = outcome]
    IN IF id \in c.allLeft THEN Queue(c1, "allElement", id, outcome) ELSE c1

\* The reaction of Promise.all to one of its promises: the first rejection
\* rejects it, the last fulfilment fulfils it; later reactions do nothing.
PromiseAllElement(c, id, outcome) ==
    IF c.allInner # "pending" \/ id \notin c.allLeft THEN c
    ELSE IF outcome = "rejected"
    THEN Queue([c EXCEPT !.allInner = "rejected", !.allLeft = {}],
               "allAwait", 0, "rejected")
    ELSE IF c.allLeft = {id}
    THEN Queue([c EXCEPT !.allInner = "resolved", !.allLeft = {}],
               "allAwait", 0, "resolved")
    ELSE [c EXCEPT !.allLeft = @ \ {id}]

\* The reaction of Promise.all of forEach to one of its promises.
ForEachAllElement(c, key, outcome) ==
    IF c.each.inner # "pending" \/ key \notin c.each.left THEN c
    ELSE IF outcome = "rejected"
    THEN Queue([c EXCEPT !.each.inner = "rejected", !.each.left = {}],
               "eachAwait", 0, "rejected")
    ELSE IF c.each.left = {key}
    THEN Queue([c EXCEPT !.each.inner = "resolved", !.each.left = {}],
               "eachAwait", 0, "resolved")
    ELSE [c EXCEPT !.each.left = @ \ {key}]

\* The runtime runs the microtask at the head of the queue.
Microtask(c) ==
    IF c.micro = <<>> THEN c
    ELSE LET m == Head(c.micro)
             c1 == [c EXCEPT !.micro = Tail(@)]
         IN CASE m.kind = "expire" -> ExpireSettled(c1, m.id, m.outcome)
              [] m.kind = "allElement" -> PromiseAllElement(c1, m.id, m.outcome)
              [] m.kind = "allAwait" -> [c1 EXCEPT !.allPromise = m.outcome]
              [] m.kind = "timerBody" -> Queue(c1, "catch", m.id, m.outcome)
              [] m.kind = "eachElement" -> ForEachAllElement(c1, m.id, m.outcome)
              [] m.kind = "eachAwait" -> [c1 EXCEPT !.each.promise = m.outcome]
              [] OTHER -> toSync(c1, m.id, options.expireErrorCallback)

\* The runtime runs the function of the armed timer h once its delay has
\* elapsed; a timer that has fired is no longer armed.
MapFire(c, h, b) ==
    IF \E t \in c.timers : t.handle = h /\ t.due <= now
    THEN LET t == CHOOSE t \in c.timers : t.handle = h
         IN MapTimerBody([c EXCEPT !.timers = @ \ {t}], t, b)
    ELSE c

SetFire(c, h, b) ==
    IF \E t \in c.timers : t.handle = h /\ t.due <= now
    THEN LET t == CHOOSE t \in c.timers : t.handle = h
         IN SetTimerBody([c EXCEPT !.timers = @ \ {t}], t, b)
    ELSE c

SettleId(c, id, outcome) ==
    IF \E r \in c.inflight : r.id = id
    THEN Settle(c, CHOOSE r \in c.inflight : r.id = id, outcome)
    ELSE c

\* Completion of the promise a forEach callback returned for key:
\* Promise.all reacts to it in a microtask.
ForEachSettled(c, key, outcome) ==
    IF key \in c.each.pending
    THEN LET c1 == [c EXCEPT !.each.pending = @ \ {key}]
         IN IF c.each.inner = "pending"
            THEN Queue(c1, "eachElement", key,
                       IF outcome = "rejects" THEN "rejected" ELSE "resolved")
            ELSE c1
    ELSE c

UsesId(c) == \E i \in 1..Len(c.map) : c.map[i].id = nextId

\* What a container c held and holds no longer in c2: for each entry
\* (lifecycle) that ended, its expiry and whether it had a callback.
Gone(c, c2) ==
    {[expiry |-> c.map[i].expiry, cb |-> IsFunction(c.map[i].expiryCallback)] :
        i \in {j \in 1..Len(c.map) : \A n \in 1..Len(c2.map) : c2.map[n].id # c.map[j].id}}

\* A behaviour is chosen only for a callback that the call runs.
Runs(c, key) == JsMapHas(c.map, key) /\ IsFunction(JsMapGet(c.map, key).expiryCallback)
Chosen(key, b) == b = "returns" \/ Runs(emap, key) \/ Runs(eset, key)

(***************************************************************************)
(* async.ts: delay and delayUntil; mutex.ts: Mutex.  Time is counted in    *)
(* polling intervals: acquire() polls with the default checkIntervalMs.    *)
(* An async function runs synchronously up to its first await; what        *)
(* follows an await runs as a microtask.  A task is one call in progress:  *)
(* pc is the await it is suspended at.                                     *)
(***************************************************************************)
Infinity == 1000
CheckIntervalMs == 1
Callers == {1, 2}
TimeoutMsValues == {0, 1, Infinity}
ConditionOutcomes == {"true", "false", "throws"}

JsPlus(a, b) == IF a >= Infinity \/ b >= Infinity THEN Infinity ELSE a + b

IdleTask ==
    [op |-> "none", pc |-> "idle", timeoutTime |-> Undefined, due |-> Undefined,
     swallowExceptions |-> FALSE, value |-> "none", evals |-> 0, threw |-> FALSE,
     promise |-> "none", result |-> "none", chain |-> "none", stayed |-> FALSE]

\* delayUntil up to its first await: the deadline, then the first
\* evaluation of the condition, whose outcome is value.
DelayUntilCall(t, timeoutMs, swallowExceptions, value) ==
    [t EXCEPT !.timeoutTime = JsPlus(now, timeoutMs),
              !.swallowExceptions = swallowExceptions,
              !.value = value, !.evals = 1, !.threw = (value = "throws"),
              !.promise = "pending", !.pc = "awaitCondition"]

\* Variant of the try/catch of delayUntil that rethrows whatever the flag.
DelayUntilAwaitCondition_Rethrow(t) ==
    IF t.value = "true" THEN [t EXCEPT !.promise = "resolved", !.pc = "settled"]
    ELSE IF t.value = "throws"
    THEN [t EXCEPT !.promise = "exception", !.pc = "settled"]
    ELSE [t EXCEPT !.pc = "delay", !.due = now + CheckIntervalMs]

\* After await condition(): return on true, rethrow an exception unless
\* swallowExceptions, otherwise await delay(checkIntervalMs).
DelayUntilAwaitCondition(t) ==
    IF t.value = "true" THEN [t EXCEPT !.promise = "resolved", !.pc = "settled"]
    ELSE IF t.value = "throws" /\ ~t.swallowExceptions
    THEN [t EXCEPT !.promise = "exception", !.pc = "settled"]
    ELSE [t EXCEPT !.pc = "delay", !.due = now + CheckIntervalMs]

\* Variant of the loop test with < for <=.
DelayUntilAfterDelay_Strict(t, value) ==
    IF now < t.timeoutTime
    THEN [t EXCEPT !.value = value, !.evals = @ + 1, !.threw = @ \/ value = "throws",
                   !.pc = "awaitCondition"]
    ELSE [t EXCEPT !.promise = "timeout", !.pc = "settled"]

\* After await delay(): while (Date.now() <= timeoutTime) evaluates the
\* condition again, otherwise throw new Error("timeout").
DelayUntilAfterDelay(t, value) ==
    IF now <= t.timeoutTime
    THEN [t EXCEPT !.value = value, !.evals = @ + 1, !.threw = @ \/ value = "throws",
                   !.pc = "awaitCondition"]
    ELSE [t EXCEPT !.promise = "timeout", !.pc = "settled"]

\* Variant of the condition of acquire that is always true.
MutexCondition_True(own) == "true"

\* Variant of the condition of acquire that is never true.
MutexCondition_False(own) == "false"

\* The condition acquire() hands to delayUntil: async () => !this.#owned.
MutexCondition(own) == IF own THEN "false" ELSE "true"

\* acquire() up to its first await.
MutexAcquire(own, t, timeoutMs) ==
    IF own
    THEN [owned |-> own,
          task |-> [DelayUntilCall(t, timeoutMs, FALSE, MutexCondition(own))
                        EXCEPT !.result = "pending"]]
    ELSE [owned |-> TRUE, task |-> [t EXCEPT !.result = "true"]]

\* Variant of acquire without the catch.
MutexAcquireResume_NoCatch(own, t) ==
    IF t.promise = "resolved"
    THEN [owned |-> TRUE, task |-> [t EXCEPT !.result = "true", !.pc = "idle"]]
    ELSE [owned |-> own, task |-> [t EXCEPT !.result = "rejected", !.pc = "idle"]]

\* acquire() after await delayUntil(...): take the mutex and return true,
\* or return false from the catch.
MutexAcquireResume(own, t) ==
    IF t.promise = "resolved"
    THEN [owned |-> TRUE, task |-> [t EXCEPT !.result = "true", !.pc = "idle"]]
    ELSE [owned |-> own, task |-> [t EXCEPT !.result = "false", !.pc = "idle"]]

\* Variant of release that never throws.
MutexRelease_NoThrow(own) == R(FALSE, NoValue)

\* release(): c is #owned afterwards, ret the message of the Error thrown.
MutexRelease(own) ==
    IF ~own THEN R(own, "Unbalanced release") ELSE R(FALSE, NoValue)

\* The promise of delayUntil has settled: a direct call is over, acquire()
\* is resumed by a microtask.
DelayUntilContinue(t) ==
    IF t.pc # "settled" THEN t
    ELSE IF t.op = "acquire" THEN [t EXCEPT !.pc = "awaitDelayUntil"]
    ELSE [t EXCEPT !.pc = "idle"]

\* The condition of task t evaluated now: that of acquire reads #owned,
\* that of a direct caller has the outcome value.
Condition(own, t, value) == IF t.op = "acquire" THEN MutexCondition(own) ELSE value

\* One microtask of task t.
RunTask(own, t, value) ==
    CASE t.pc = "awaitCondition" ->
            [owned |-> own, task |-> DelayUntilContinue(DelayUntilAwaitCondition(t))]
      [] t.pc = "resumed" ->
            [owned |-> own,
             task |-> DelayUntilContinue(DelayUntilAfterDelay(t, Condition(own, t, value)))]
      [] OTHER -> MutexAcquireResume(own, t)

\* User code runs as a macrotask or as a microtask among those it started
\* itself.  The microtasks that follow the callback of a delay timer are
\* those of the one task the timer resumed: user code gets its turn when
\* that task is suspended again or has returned.
UserMayRun == \A w \in Callers : tasks[w].pc \in {"idle", "delay"} \/ tasks[w].chain = "user"

AsyncInit ==
    /\ owned = FALSE
    /\ tasks = [w \in Callers |-> IdleTask]
    /\ jobs = <<>>
    /\ ghost = [calls |-> 0, holders |-> 0, acquired |-> 0, released |-> 0,
                release |-> "none"]

(***************************************************************************)
(* eventemitter.ts: resolveWhen.  A listener is identified by the promise  *)
(* whose callback it is.                                                   *)
(***************************************************************************)
EventNames == {"a", "b"}
Whens == {1, 2}
EventLists == {<<"a">>, <<"b">>, <<"a", "b">>, <<"a", "a">>}
\* timeoutMs: Undefined stands for the default, NaN.
WhenTimeoutMsValues == {Undefined, 0, 1}

NoWhen ==
    [state |-> "none", reason |-> "none", completed |-> FALSE, eventNames |-> <<>>,
     hasCondition |-> FALSE, timeoutMs |-> Undefined, timer |-> Undefined]

\* typeof timeoutMs === "number" && timeoutMs > 0
HasTimeout(timeoutMs) == IsNumber(timeoutMs) /\ timeoutMs > 0

\* EventEmitter.removeListener: removes the most recently added instance.
RemoveListener(list, p) ==
    IF \E i \in 1..Len(list) : list[i] = p
    THEN LET i == CHOOSE i \in 1..Len(list) :
                      list[i] = p /\ \A j \in 1..Len(list) : list[j] = p => j <= i
         IN SubSeq(list, 1, i - 1) \o SubSeq(list, i + 1, Len(list))
    ELSE list

RECURSIVE RemoveListeners(_, _, _)
RemoveListeners(em, names, p) ==
    IF names = <<>> THEN em
    ELSE RemoveListeners([em EXCEPT ![Head(names)] = RemoveListener(@, p)], Tail(names), p)

RECURSIVE AddListeners(_, _, _, _)
AddListeners(em, names, p, prepend) ==
    IF names = <<>> THEN em
    ELSE AddListeners([em EXCEPT ![Head(names)] =
                          IF prepend THEN <<p>> \o @ ELSE Append(@, p)],
                      Tail(names), p, prepend)

\* resolve / reject of a promise: no effect once it has settled.
WhenSettle(w, state, reason) ==
    IF w.state = "pending" THEN [w EXCEPT !.state = state, !.reason = reason] ELSE w

\* Variant of cancel that leaves the timeout timer armed.
WhenCancel_KeepTimer(e, p, dontReject) ==
    LET w == e.whens[p]
        w2 == [w EXCEPT !.completed = TRUE]
        w3 == IF ~dontReject THEN WhenSettle(w2, "rejected", "Cancelled") ELSE w2
    IN IF w.completed THEN e
       ELSE [emitter |-> RemoveListeners(e.emitter, w.eventNames, p),
             whens |-> [e.whens EXCEPT ![p] = w3]]

\* The cancel closure of resolveWhen.
WhenCancel(e, p, dontReject) ==
    LET w == e.whens[p]
        w1 == IF HasTimeout(w.timeoutMs) THEN [w EXCEPT !.timer = Undefined] ELSE w
        w2 == [w1 EXCEPT !.completed = TRUE]
        w3 == IF ~dontReject THEN WhenSettle(w2, "rejected", "Cancelled") ELSE w2
    IN IF w.completed THEN e
       ELSE [emitter |-> RemoveListeners(e.emitter, w.eventNames, p),
             whens |-> [e.whens EXCEPT ![p] = w3]]

\* Variant of the listener that does not consult the condition.
WhenCallback_NoCondition(e, p, matches) ==
    [WhenCancel(e, p, TRUE) EXCEPT !.whens[p] = WhenSettle(@, "resolved", "args")]

\* The listener of resolveWhen; matches: what condition(...args) returns.
WhenCallback(e, p, matches) ==
    IF ~e.whens[p].hasCondition \/ matches
    THEN [WhenCancel(e, p, TRUE) EXCEPT !.whens[p] = WhenSettle(@, "resolved", "args")]
    ELSE e

\* The function given to setTimeout by resolveWhen.
WhenTimerBody(e, p) ==
    [WhenCancel(e, p, TRUE) EXCEPT !.whens[p] = WhenSettle(@, "rejected", "Timeout")]

\* resolveWhen(emitter, events, {condition, timeoutMs, prepend}).
ResolveWhenCall(e, p, events, hasCondition, timeoutMs, prepend) ==
    [emitter |-> AddListeners(e.emitter, events, p, prepend),
     whens |-> [e.whens EXCEPT ![p] =
                   [state |-> "pending", reason |-> "none", completed |-> FALSE,
                    eventNames |-> events, hasCondition |-> hasCondition,
                    timeoutMs |-> timeoutMs,
                    timer |-> IF HasTimeout(timeoutMs) THEN now + timeoutMs
                              ELSE Undefined]]]

\* emitter.emit(name, ...args): calls a copy of the listener list in order;
\* accepted: the promises whose condition accepts the arguments.
RECURSIVE EmitLoop(_, _, _)
EmitLoop(e, list, accepted) ==
    IF list = <<>> THEN e
    ELSE EmitLoop(WhenCallback(e, Head(list), Head(list) \in accepted), Tail(list), accepted)

EmitterEmit(e, name, accepted) == EmitLoop(e, e.emitter[name], accepted)

Registered(em, p) == \E name \in EventNames : \E i \in 1..Len(em[name]) : em[name][i] = p

EventInit ==
    /\ emitter = [name \in EventNames |-> <<>>]
    /\ whens = [p \in Whens |-> NoWhen]

(***************************************************************************)
(* promise.ts: resolveWhenAny.  A promise reaction runs as a microtask:    *)
(* arg.then(f).catch(g) runs f one microtask after arg has resolved; when  *)
(* arg has rejected, the promise made by then rejects one microtask later  *)
(* and g runs one microtask after that.  An input is a CancellablePromise  *)
(* made by resolveWhen, by rejectWhen or by hand ("plain"): cancel() of    *)
(* the first and the last rejects the promise in the call; the promise of  *)
(* rejectWhen is settled by the reactions of innerProm.then(f).catch(g),   *)
(* its cancel is that of the inner promise, and it never resolves.         *)
(***************************************************************************)
AnyInputs == {0, 1, 2}
Makers == {"resolveWhen", "rejectWhen", "plain"}
ErrorOf(i) == <<"error0", "error1", "error2">>[i + 1]

\* inner: the state of innerProm of an input made by rejectWhen.
PendingInput ==
    [state |-> "pending", reason |-> "none", cancelCalls |-> 0,
     maker |-> "resolveWhen", inner |-> "pending"]
NoCombined ==
    [state |-> "none", value |-> Undefined, reason |-> "none", completed |-> FALSE,
     first |-> Undefined, cancelled |-> FALSE]

\* Input i settles: its reaction is queued, first records the first input
\* to settle.
InputSettle(s, i, state, reason) ==
    IF s.inputs[i].state # "pending" THEN s
    ELSE [s EXCEPT !.inputs[i].state = state, !.inputs[i].reason = reason,
                   !.reactions = Append(@, <<IF state = "resolved" THEN "then" ELSE "pass", i>>),
                   !.combined.first = IF @ = Undefined THEN i ELSE @]

\* The inner promise of input i, made by rejectWhen, settles: the first
\* reaction of innerProm.then(f).catch(g) is queued.
InnerSettle(s, i, state) ==
    IF s.inputs[i].inner # "pending" THEN s
    ELSE [s EXCEPT !.inputs[i].inner = state,
                   !.reactions = Append(@, <<IF state = "resolved" THEN "innerThen"
                                             ELSE "innerPass", i>>)]

\* cancel() of a CancellablePromise: rejects it with Error("Cancelled")
\* unless it has settled; that of rejectWhen is innerProm.cancel, which
\* rejects the inner promise.
InputCancel(s, i) ==
    LET s1 == [s EXCEPT !.inputs[i].cancelCalls = @ + 1]
    IN IF s.inputs[i].maker = "rejectWhen"
       THEN InnerSettle(s1, i, "Cancelled")
       ELSE InputSettle(s1, i, "rejected", "Cancelled")

\* A matching event is emitted for input i, or a plain input resolves:
\* the promise of resolveWhen resolves, the inner promise of rejectWhen
\* resolves.
InputEvent(s, i) ==
    IF s.inputs[i].maker = "rejectWhen"
    THEN InnerSettle(s, i, "resolved")
    ELSE InputSettle(s, i, "resolved", "none")

\* Input i fails by itself: the timeout of resolveWhen or of rejectWhen
\* elapses, or a plain input rejects.
InputFail(s, i) ==
    IF s.inputs[i].maker = "rejectWhen"
    THEN InnerSettle(s, i, ErrorOf(i))
    ELSE InputSettle(s, i, "rejected", ErrorOf(i))

RECURSIVE CancelAllFrom(_, _, _)
CancelAllFrom(s, skip, i) ==
    IF i \notin AnyInputs THEN s
    ELSE CancelAllFrom(IF i # skip THEN InputCancel(s, i) ELSE s, skip, i + 1)

cancelAllExcept(s, skip) == CancelAllFrom(s, skip, 0)

\* The function given to then for input i.
AnyThen(s, i) ==
    IF ~s.combined.completed
    THEN [cancelAllExcept([s EXCEPT !.combined.completed = TRUE], i)
             EXCEPT !.combined.state = "resolved", !.combined.value = i]
    ELSE s

\* The function given to catch for input i.
AnyCatch(s, i) ==
    IF ~s.combined.completed
    THEN [cancelAllExcept([s EXCEPT !.combined.completed = TRUE], i)
             EXCEPT !.combined.state = "rejected", !.combined.reason = s.inputs[i].reason]
    ELSE s

\* cancel() of the combined promise.
AnyCancel(s) ==
    IF ~s.combined.completed
    THEN [cancelAllExcept([s EXCEPT !.combined.completed = TRUE], -1)
             EXCEPT !.combined.state = "rejected", !.combined.reason = "Cancelled",
                    !.combined.cancelled = TRUE]
    ELSE s

\* The microtask at the head of the queue.
AnyReaction(s) ==
    LET kind == Head(s.reactions)[1]
        i == Head(s.reactions)[2]
        s1 == [s EXCEPT !.reactions = Tail(@)]
    IN CASE kind = "then" -> AnyThen(s1, i)
         [] kind = "pass" -> [s1 EXCEPT !.reactions = Append(@, <<"catch", i>>)]
         [] kind = "innerThen" -> InputSettle(s1, i, "rejected", "event")
         [] kind = "innerPass" -> [s1 EXCEPT !.reactions = Append(@, <<"innerCatch", i>>)]
         [] kind = "innerCatch" -> InputSettle(s1, i, "rejected", s1.inputs[i].inner)
         [] OTHER -> AnyCatch(s1, i)

AnyInit ==
    /\ inputs = [i \in AnyInputs |-> PendingInput]
    /\ combined = NoCombined
    /\ reactions = <<>>

\* One call made on both containers; last describes it: the operation, its
\* argument, what it returned and the entries it removed.
Called(op, key, m, s) ==
    /\ emap' = m.c
    /\ eset' = s.c
    /\ last' = [op |-> op, key |-> key, mret |-> m.ret, sret |-> s.ret,
                gone |-> Gone(emap, m.c)]
    /\ nextId' = IF UsesId(m.c) \/ UsesId(s.c) THEN nextId + 1 ELSE nextId
    /\ UNCHANGED <<options, now, asyncVars, eventVars, anyVars>>

\* Constructor options: no defaults, or a default TTL and a default callback.
Options ==
    {[defaultExpiryMs |-> d[1], defaultExpiryCallback |-> d[2], expireErrorCallback |-> e] :
        d \in {<<Undefined, NoCallback>>, <<1, "g">>},
        e \in {NoCallback} \cup ErrorCallbacks}
NoOptions ==
    [defaultExpiryMs |-> Undefined, defaultExpiryCallback |-> NoCallback,
     expireErrorCallback |-> NoCallback]

Init ==
    /\ options = NoOptions
    /\ now = 0
    /\ nextId = 1
    /\ emap = EmptyContainer
    /\ eset = EmptyContainer
    /\ last = [op |-> "new", key |-> Undefined, mret |-> NoValue, sret |-> NoValue, gone |-> {}]
    /\ AsyncInit
    /\ EventInit
    /\ AnyInit

Set(k, v, ms, cb) ==
    /\ nextId <= MaxSets
    /\ Called("set", k, MapSet(emap, k, v, ms, cb), SetAdd(eset, k, ms, cb))

Delete(k) == Called("delete", k, MapDelete(emap, k), SetDelete(eset, k))

Clear == Called("clear", Undefined, MapClear(emap), SetClear(eset))

ClearExpiry(k) == Called("clearExpiry", k, MapClearExpiry(emap, k), SetClearExpiry(eset, k))

SetExpiry(k, ms) ==
    /\ nextId <= MaxIds
    /\ Called("setExpiry", k, MapSetExpiry(emap, k, ms), SetSetExpiry(eset, k, ms))

SetMinimumExpiry(k, ms) ==
    /\ nextId <= MaxIds
    /\ Called("setMinimumExpiry", k, MapSetMinimumExpiry(emap, k, ms),
              SetSetMinimumExpiry(eset, k, ms))

Expire(k, b) ==
    /\ Chosen(k, b)
    /\ Called("expire", k, MapExpire(emap, k, b), SetExpire(eset, k, b))

ExpireAll(bs) ==
    /\ \A k \in Keys : Chosen(k, bs[k])
    /\ ExpireAllPromise(emap) # "pending"
    /\ ExpireAllPromise(eset) # "pending"
    /\ Called("expireAll", Undefined, MapExpireAll(emap, bs), SetExpireAll(eset, bs))

TimerFire(h, b) ==
    /\ emap.micro = <<>> /\ eset.micro = <<>>
    /\ \E t \in emap.timers \cup eset.timers :
          /\ t.handle = h
          /\ t.due <= now
          /\ b = "returns" \/ IsFunction(t.expiryCallback)
    /\ Called("timer", h, R(MapFire(emap, h, b), NoValue),
              R(SetFire(eset, h, b), NoValue))

CallbackSettle(id, outcome) ==
    /\ \E r \in emap.inflight \cup eset.inflight : r.id = id
    /\ Called("settle", id, R(SettleId(emap, id, outcome), NoValue),
              R(SettleId(eset, id, outcome), NoValue))

\* The microtask at the head of the queue runs, once the synchronous code
\* that queued it has returned.
RunMicrotask ==
    /\ emap.micro # <<>> \/ eset.micro # <<>>
    /\ Called("microtask", Undefined, R(Microtask(emap), NoValue),
              R(Microtask(eset), NoValue))

Tick ==
    /\ now < MaxTime
    /\ now' = now + 1
    /\ UNCHANGED <<containerVars, asyncVars, eventVars, anyVars>>

InitSink ==
    /\ options \in {o \in Options : o.defaultExpiryMs = Undefined}
    /\ now = 0
    /\ nextId = 1
    /\ emap = EmptyContainer
    /\ eset = EmptyContainer
    /\ last = [op |-> "new", key |-> Undefined, mret |-> NoValue, sret |-> NoValue, gone |-> {}]
    /\ AsyncInit
    /\ EventInit
    /\ AnyInit

\* The entry lifecycle: insertion, removal, forced and timed expiry.
Next ==
    \/ \E k \in Keys, ms \in {1, Undefined}, cb \in {"f", NoCallback} :
          Set(k, "a", ms, cb)
    \/ \E k \in Keys : Delete(k)
    \/ Clear
    \/ \E k \in Keys, b \in Behaviours : Expire(k, b)
    \/ \E h \in Ids, b \in Behaviours : TimerFire(h, b)
    \/ \E id \in Ids, outcome \in Outcomes : CallbackSettle(id, outcome)
    \/ RunMicrotask
    \/ Tick

Spec == Init /\ [][Next]_vars

\* expireAll() between insertions, removals and calls of expire, with
\* callbacks of every behaviour.  The
\* runtime always comes to run a queued microtask.
NextExpireAll ==
    \/ \E k \in Keys, ms \in {1, Undefined}, cb \in {"f", NoCallback} :
          Set(k, "a", ms, cb)
    \/ \E k \in Keys : Delete(k)
    \/ \E k \in Keys, b \in Behaviours : Expire(k, b)
    \/ \E bs \in [Keys -> Behaviours] : ExpireAll(bs)
    \/ \E id \in Ids, outcome \in Outcomes : CallbackSettle(id, outcome)
    \/ RunMicrotask

SpecExpireAll == Init /\ [][NextExpireAll]_vars /\ WF_vars(RunMicrotask)

\* Every way an entry's lifecycle ends, in any order: timer fires, expire,
\* expireAll, delete, clear and overwriting set/add, with callbacks of
\* every behaviour.  A timer armed with a delay of 0 is due at once: the
\* runtime may fire it in any later turn, before or after any other call.
NextLifecycle ==
    \/ \E k \in Keys, ms \in {0, Undefined}, cb \in {"f", NoCallback} :
          Set(k, "a", ms, cb)
    \/ \E k \in Keys : Delete(k)
    \/ Clear
    \/ \E k \in Keys, b \in Behaviours : Expire(k, b)
    \/ \E bs \in [Keys -> Behaviours] : ExpireAll(bs)
    \/ \E h \in Ids, b \in Behaviours : TimerFire(h, b)
    \/ \E id \in Ids, outcome \in Outcomes : CallbackSettle(id, outcome)
    \/ RunMicrotask

SpecLifecycle == Init /\ [][NextLifecycle]_vars

\* Expiry with an expireErrorCallback configured or not.
NextSink ==
    \/ \E k \in Keys, ms \in {1, Undefined}, cb \in {"f", NoCallback} :
          Set(k, "a", ms, cb)
    \/ \E k \in Keys, b \in Behaviours : Expire(k, b)
    \/ \E h \in Ids, b \in Behaviours : TimerFire(h, b)
    \/ \E id \in Ids, outcome \in Outcomes : CallbackSettle(id, outcome)
    \/ RunMicrotask
    \/ Tick

SpecSink == InitSink /\ [][NextSink]_vars

\* A container constructed without options or with both defaults.
InitTtl ==
    /\ options \in {o \in Options : o.expireErrorCallback = NoCallback}
    /\ now = 0
    /\ nextId = 1
    /\ emap = EmptyContainer
    /\ eset = EmptyContainer
    /\ last = [op |-> "new", key |-> Undefined, mret |-> NoValue, sret |-> NoValue, gone |-> {}]
    /\ AsyncInit
    /\ EventInit
    /\ AnyInit

\* set/add, up to MaxIds insertions.
Add(k, v, ms, cb) ==
    /\ nextId <= MaxIds
    /\ Called("set", k, MapSet(emap, k, v, ms, cb), SetAdd(eset, k, ms, cb))

\* Every operation that reads or changes an entry's expiry.
NextTtl ==
    \/ \E k \in Keys, ms \in ExpiryMsValues \cup {Undefined},
          cb \in {"f", NoCallback} : Add(k, "a", ms, cb)
    \/ \E k \in Keys : ClearExpiry(k)
    \/ \E k \in Keys, ms \in ExpiryMsValues : SetExpiry(k, ms)
    \/ \E k \in Keys, ms \in ExpiryMsValues : SetMinimumExpiry(k, ms)
    \/ \E h \in Ids : TimerFire(h, "returns")
    \/ Tick

SpecTtl == InitTtl /\ [][NextTtl]_vars

\* Every operation the map and the set share, on both containers, the map
\* storing each key as its own value; the callbacks are synchronous.
NextRefine ==
    \/ \E k \in Keys, ms \in {1, Undefined}, cb \in {"f", NoCallback} :
          Set(k, k, ms, cb)
    \/ \E k \in Keys : Delete(k)
    \/ Clear
    \/ \E k \in Keys : ClearExpiry(k)
    \/ \E k \in Keys : nextId <= MaxSets /\ SetExpiry(k, 1)
    \/ \E k \in Keys : nextId <= MaxSets /\ SetMinimumExpiry(k, 1)
    \/ \E k \in Keys, b \in {"returns", "throws"} : Expire(k, b)
    \/ \E bs \in [Keys -> {"returns", "throws"}] : ExpireAll(bs)
    \/ \E h \in Ids, b \in {"returns", "throws"} : TimerFire(h, b)
    \/ RunMicrotask
    \/ Tick

SpecRefine == Init /\ [][NextRefine]_vars

\* forEach(callbackfn); bs[key]: what callbackfn does when called for key.
ForEach(bs) ==
    /\ emap.each.pending = {} /\ eset.each.pending = {}
    /\ emap.each.promise # "pending" /\ eset.each.promise # "pending"
    /\ \A k \in Keys : JsMapHas(emap.map, k) \/ bs[k] = "returns"
    /\ Called("forEach", Undefined, MapForEach(emap, bs), SetForEach(eset, bs))

ForEachSettle(k, outcome) ==
    /\ k \in emap.each.pending \cup eset.each.pending
    /\ Called("forEachSettle", k, R(ForEachSettled(emap, k, outcome), NoValue),
              R(ForEachSettled(eset, k, outcome), NoValue))

\* Insertion, removal and iteration.
NextIter ==
    \/ \E k \in Keys, v \in Values : Add(k, v, Undefined, NoCallback)
    \/ \E k \in Keys : Delete(k)
    \/ \E k \in Keys : SetExpiry(k, 1)
    \/ \E bs \in [Keys -> Behaviours] : ForEach(bs)
    \/ \E k \in Keys, outcome \in Outcomes : ForEachSettle(k, outcome)
    \/ RunMicrotask

SpecIter == Init /\ [][NextIter]_vars

\* The operations on one entry and forEach, with callbacks that may fail.
NextTotal ==
    \/ \E k \in Keys : Set(k, "a", Undefined, "f")
    \/ \E k \in Keys : Delete(k)
    \/ Clear
    \/ \E k \in Keys : ClearExpiry(k)
    \/ \E k \in Keys : nextId <= MaxSets /\ SetExpiry(k, 1)
    \/ \E k \in Keys : nextId <= MaxSets /\ SetMinimumExpiry(k, 2)
    \/ \E k \in Keys, b \in {"returns", "throws"} : Expire(k, b)
    \/ \E bs \in [Keys -> Behaviours] : ForEach(bs)
    \/ \E k \in Keys, outcome \in Outcomes : ForEachSettle(k, outcome)
    \/ RunMicrotask

SpecTotal == Init /\ [][NextTotal]_vars

\* The reads, between insertions, removals and timer fires.
IteratorNames == {"entries", "keys", "values", "iterator"}

ReadHas(k) == Called("has", k, MapHasCall(emap, k), SetHasCall(eset, k))
\* ExpiringSet has no get.
ReadGet(k) == Called("get", k, MapGetCall(emap, k), R(eset, NoValue))
ReadGetExpiry(k) ==
    Called("getExpiry", k, MapGetExpiryCall(emap, k), SetGetExpiryCall(eset, k))
ReadSize == Called("size", Undefined, MapSizeCall(emap), SetSizeCall(eset))
\* it = m.entries() / keys() / values() / m[Symbol.iterator](), and one
\* it.next() of the iterator made last.
ReadIterate(which) ==
    Called(which, Undefined, MapIterate(emap, which), SetIterate(eset, which))
ReadNext ==
    /\ emap.iter.which # "none"
    /\ Called("next", Undefined, MapIteratorNext(emap), SetIteratorNext(eset))

NextRead ==
    \/ \E k \in Keys, ms \in {1, Undefined} : Set(k, "b", ms, NoCallback)
    \/ \E k \in Keys : Delete(k)
    \/ \E k \in Keys : ReadHas(k)
    \/ \E k \in Keys : ReadGet(k)
    \/ \E k \in Keys : ReadGetExpiry(k)
    \/ ReadSize
    \/ \E which \in IteratorNames : ReadIterate(which)
    \/ ReadNext
    \/ \E h \in Ids : TimerFire(h, "returns")
    \/ Tick

SpecRead == Init /\ [][NextRead]_vars

\* Iteration, one element at a time, and forEach, between insertions,
\* re-insertions and removals.  Each call is made in a turn of its own,
\* when the microtasks of the turn before have run, and an iterator is made
\* once the one made before has ended.
Idle == emap.micro = <<>> /\ eset.micro = <<>>
NextIterate ==
    \/ \E k \in Keys : Idle /\ Add(k, "a", Undefined, NoCallback)
    \/ \E k \in Keys : Idle /\ Delete(k)
    \/ \E which \in IteratorNames :
          Idle /\ (emap.iter.which = "none" \/ emap.iter.done) /\ ReadIterate(which)
    \/ Idle /\ ReadNext
    \/ \E bs \in [Keys -> {"returns", "throws"}] : Idle /\ ForEach(bs)
    \/ RunMicrotask

SpecIterate == Init /\ [][NextIterate]_vars

\* expireAll() with callbacks that call back into the container.  The loop
\* of expireAll is synchronous: from its start to its end nothing else runs,
\* one step below is one iteration of the for-of.  An iteration whose
\* callback inserts needs a fresh lifecycle, so the walk is cut at MaxIds.
ExpireAllBegin ==
    /\ ~emap.loop.active
    /\ ExpireAllPromise(emap) # "pending" /\ ExpireAllPromise(eset) # "pending"
    /\ Called("expireAllBegin", Undefined, MapExpireAllBegin(emap), SetExpireAllBegin(eset))

ExpireAllVisit(b) ==
    /\ emap.loop.active
    /\ MapExpireAllHasNext(emap)
    /\ b # "returns" => nextId <= MaxIds
    /\ Called("expireAllVisit", MapExpireAllNext(emap).key,
              MapExpireAllVisit(emap, b), SetExpireAllVisit(eset, b))

ExpireAllEnd ==
    /\ emap.loop.active
    /\ ~MapExpireAllHasNext(emap)
    /\ Called("expireAllEnd", Undefined, MapExpireAllEnd(emap), SetExpireAllEnd(eset))

NextReenter ==
    \/ \E k \in Keys, v \in Values, cb \in {NoCallback, "f"} :
           ~emap.loop.active /\ Set(k, v, Undefined, cb)
    \/ \E k \in Keys : ~emap.loop.active /\ Delete(k)
    \/ ExpireAllBegin
    \/ \E b \in ReentrantBehaviours : ExpireAllVisit(b)
    \/ ExpireAllEnd
    \/ ~emap.loop.active /\ RunMicrotask

SpecReenter == Init /\ [][NextReenter]_vars

\* Mutex and delayUntil.  MaxCalls bounds the calls of acquire/delayUntil.
MaxCalls == 3

\* A settled call of acquire: what it adds to the counts.
Counted(g, t) ==
    IF t.op = "acquire" /\ t.result = "true"
    THEN [g EXCEPT !.holders = @ + 1, !.acquired = @ + 1]
    ELSE g

Acquire(w, timeoutMs) ==
    /\ UserMayRun
    /\ tasks[w].pc = "idle"
    /\ ghost.calls < MaxCalls
    /\ LET r == MutexAcquire(owned, [IdleTask EXCEPT !.op = "acquire", !.chain = "user",
                                                      !.stayed = TRUE], timeoutMs)
       IN /\ owned' = r.owned
          /\ tasks' = [tasks EXCEPT ![w] = r.task]
          /\ jobs' = IF r.task.pc = "idle" THEN jobs ELSE Append(jobs, w)
          /\ ghost' = Counted([ghost EXCEPT !.calls = @ + 1], r.task)
    /\ UNCHANGED <<containerVars, eventVars, anyVars, now>>

Release ==
    /\ UserMayRun
    /\ LET r == MutexRelease(owned)
       IN /\ owned' = r.c
          /\ ghost' = IF r.ret = NoValue
                      THEN [ghost EXCEPT !.released = @ + 1, !.holders = 0, !.release = r.ret]
                      ELSE [ghost EXCEPT !.release = r.ret]
          /\ tasks' = IF r.ret = NoValue
                      THEN [w \in Callers |-> [tasks[w] EXCEPT !.stayed = FALSE]]
                      ELSE tasks
    /\ UNCHANGED <<containerVars, eventVars, anyVars, now, jobs>>

DelayUntil(w, timeoutMs, swallowExceptions, value) ==
    /\ UserMayRun
    /\ tasks[w].pc = "idle"
    /\ ghost.calls < MaxCalls
    /\ tasks' = [tasks EXCEPT ![w] =
                    DelayUntilCall([IdleTask EXCEPT !.op = "delayUntil", !.chain = "user"],
                                   timeoutMs, swallowExceptions, value)]
    /\ jobs' = Append(jobs, w)
    /\ ghost' = [ghost EXCEPT !.calls = @ + 1]
    /\ UNCHANGED <<containerVars, eventVars, anyVars, now, owned>>

\* The runtime runs the microtask at the head of the queue.
RunJob(value) ==
    /\ jobs # <<>>
    /\ LET w == Head(jobs)
           r == RunTask(owned, tasks[w], value)
       IN /\ owned' = r.owned
          /\ tasks' = [tasks EXCEPT ![w] = r.task]
          /\ jobs' = IF r.task.pc \in {"awaitCondition", "awaitDelayUntil"}
                     THEN Append(Tail(jobs), w)
                     ELSE Tail(jobs)
          /\ ghost' = IF tasks[w].pc = "awaitDelayUntil" THEN Counted(ghost, r.task) ELSE ghost
    /\ UNCHANGED <<containerVars, eventVars, anyVars, now>>

\* The timer of delay(checkIntervalMs) fires: a macrotask, run when no
\* microtask is left; its callback resolves the promise delayUntil awaits.
DelayFire(w) ==
    /\ jobs = <<>>
    /\ tasks[w].pc = "delay"
    /\ tasks[w].due <= now
    /\ tasks' = [tasks EXCEPT ![w].pc = "resumed", ![w].chain = "timer"]
    /\ jobs' = <<w>>
    /\ UNCHANGED <<containerVars, eventVars, anyVars, now, owned, ghost>>

NextMutex ==
    \/ \E w \in Callers, timeoutMs \in TimeoutMsValues : Acquire(w, timeoutMs)
    \/ Release
    \/ RunJob("false")
    \/ \E w \in Callers : DelayFire(w)
    \/ Tick

SpecMutex == Init /\ [][NextMutex]_vars

(***************************************************************************)
(* The Mutex in runs without end: any number of acquire() calls, all with  *)
(* the default infinite timeout.  The calls and the evaluations of the     *)
(* condition are not counted, and time is kept relative to now: the clock  *)
(* advancing by one polling interval brings every pending delay one        *)
(* interval closer.                                                        *)
(***************************************************************************)
Uncounted(t) == [t EXCEPT !.evals = 1]

AcquireInfinite(w) ==
    /\ UserMayRun
    /\ tasks[w].pc = "idle"
    /\ LET r == MutexAcquire(owned, [IdleTask EXCEPT !.op = "acquire", !.chain = "user"],
                             Infinity)
       IN /\ owned' = r.owned
          /\ tasks' = [tasks EXCEPT ![w] = r.task]
          /\ jobs' = IF r.task.pc = "idle" THEN jobs ELSE Append(jobs, w)
    /\ UNCHANGED <<containerVars, eventVars, anyVars, now, ghost>>

\* The holder calls release().
ReleaseHeld ==
    /\ UserMayRun
    /\ owned
    /\ owned' = MutexRelease(owned).c
    /\ UNCHANGED <<containerVars, eventVars, anyVars, now, tasks, jobs, ghost>>

RunJobUncounted ==
    /\ jobs # <<>>
    /\ LET w == Head(jobs)
           r == RunTask(owned, tasks[w], "false")
       IN /\ owned' = r.owned
          /\ tasks' = [tasks EXCEPT ![w] = Uncounted(r.task)]
          /\ jobs' = IF r.task.pc \in {"awaitCondition", "awaitDelayUntil"}
                     THEN Append(Tail(jobs), w)
                     ELSE Tail(jobs)
    /\ UNCHANGED <<containerVars, eventVars, anyVars, now, ghost>>

\* One polling interval passes.
Elapse ==
    /\ \E w \in Callers : tasks[w].pc = "delay" /\ tasks[w].due > now
    /\ tasks' = [w \in Callers |->
                    IF tasks[w].pc = "delay" /\ tasks[w].due > now
                    THEN [tasks[w] EXCEPT !.due = @ - 1]
                    ELSE tasks[w]]
    /\ UNCHANGED <<containerVars, eventVars, anyVars, now, owned, jobs, ghost>>

NextMutexLive ==
    \/ \E w \in Callers : AcquireInfinite(w)
    \/ ReleaseHeld
    \/ RunJobUncounted
    \/ \E w \in Callers : DelayFire(w)
    \/ Elapse

\* Time passes, timers fire and microtasks run; every holder eventually
\* calls release().
SpecMutexLive ==
    /\ Init /\ [][NextMutexLive]_vars
    /\ WF_vars(Elapse)
    /\ WF_vars(RunJobUncounted)
    /\ \A w \in Callers : WF_vars(DelayFire(w))
    /\ SF_vars(ReleaseHeld)

NextDelayUntil ==
    \/ \E w \in Callers, timeoutMs \in TimeoutMsValues, swallowExceptions \in BOOLEAN,
          value \in ConditionOutcomes : DelayUntil(w, timeoutMs, swallowExceptions, value)
    \/ \E value \in ConditionOutcomes : RunJob(value)
    \/ \E w \in Callers : DelayFire(w)
    \/ Tick

SpecDelayUntil == Init /\ [][NextDelayUntil]_vars

\* resolveWhen on one emitter.
EventState == [emitter |-> emitter, whens |-> whens]

Stepped(e) ==
    /\ emitter' = e.emitter
    /\ whens' = e.whens
    /\ UNCHANGED <<containerVars, asyncVars, anyVars, now>>

ResolveWhen(p, events, hasCondition, timeoutMs, prepend) ==
    /\ whens[p].state = "none"
    /\ Stepped(ResolveWhenCall(EventState, p, events, hasCondition, timeoutMs, prepend))

Emit(name, accepted) == Stepped(EmitterEmit(EventState, name, accepted))

CancelWhen(p) ==
    /\ whens[p].state # "none"
    /\ Stepped(WhenCancel(EventState, p, FALSE))

\* The runtime runs the function of the armed timer of p once its delay
\* has elapsed; a timer that has fired is no longer armed.
WhenTimerFire(p) ==
    /\ IsNumber(whens[p].timer)
    /\ whens[p].timer <= now
    /\ Stepped(WhenTimerBody([EventState EXCEPT !.whens[p].timer = Undefined], p))

NextWhen ==
    \/ \E p \in Whens, events \in EventLists, hasCondition \in BOOLEAN,
          timeoutMs \in WhenTimeoutMsValues, prepend \in BOOLEAN :
             ResolveWhen(p, events, hasCondition, timeoutMs, prepend)
    \/ \E name \in EventNames, accepted \in SUBSET Whens : Emit(name, accepted)
    \/ \E p \in Whens : CancelWhen(p)
    \/ \E p \in Whens : WhenTimerFire(p)
    \/ Tick

SpecWhen == Init /\ [][NextWhen]_vars

\* The same operations, each recorded in last: key is the promise it was
\* called on, mret the event name of an emit, and the set field holds the
\* promises whose condition accepted the arguments of the emit.
WhenCalled(op, key, name, accepted, e) ==
    /\ emitter' = e.emitter
    /\ whens' = e.whens
    /\ last' = [op |-> op, key |-> key, mret |-> name, sret |-> NoValue,
                gone |-> accepted]
    /\ UNCHANGED <<options, now, nextId, emap, eset, asyncVars, anyVars>>

ResolveWhenLogged(p, events, hasCondition, timeoutMs) ==
    /\ whens[p].state = "none"
    /\ WhenCalled("resolveWhen", p, NoValue, {},
                  ResolveWhenCall(EventState, p, events, hasCondition, timeoutMs, FALSE))

EmitLogged(name, accepted) ==
    WhenCalled("emit", Undefined, name, accepted, EmitterEmit(EventState, name, accepted))

CancelLogged(p) ==
    /\ whens[p].state # "none"
    /\ WhenCalled("cancel", p, NoValue, {}, WhenCancel(EventState, p, FALSE))

TimeoutLogged(p) ==
    /\ IsNumber(whens[p].timer)
    /\ whens[p].timer <= now
    /\ WhenCalled("timeout", p, NoValue, {},
                  WhenTimerBody([EventState EXCEPT !.whens[p].timer = Undefined], p))

NextOnce ==
    \/ \E p \in Whens, events \in EventLists, hasCondition \in BOOLEAN,
          timeoutMs \in WhenTimeoutMsValues :
             ResolveWhenLogged(p, events, hasCondition, timeoutMs)
    \/ \E name \in EventNames, accepted \in SUBSET Whens : EmitLogged(name, accepted)
    \/ \E p \in Whens : CancelLogged(p)
    \/ \E p \in Whens : TimeoutLogged(p)
    \/ Tick

SpecOnce == Init /\ [][NextOnce]_vars

(***************************************************************************)
(* eventemitter.ts: rejectWhen.  The promise it returns is settled by the  *)
(* reactions of innerProm.then(f).catch(g): f runs one microtask after     *)
(* innerProm has resolved; when innerProm has rejected, the promise made   *)
(* by then rejects one microtask later and g runs one microtask after      *)
(* that.  The record of the inner promise carries the outer promise too.   *)
(***************************************************************************)
ArgKinds == {"nullish", "Error", "errorObject", "errorString", "string", "other"}
ArgLists ==
    {<<>>, <<"Error">>, <<"nullish", "errorObject">>, <<"errorString">>,
     <<"other", "string">>, <<"nullish", "other">>}

IsRejectWhen(w) == "outer" \in DOMAIN w

\* What the function given to then passes to reject for the event arguments.
RECURSIVE RejectWhenFind(_)
RejectWhenFind(result) ==
    IF result = <<>> THEN "result"
    ELSE CASE Head(result) = "nullish" -> RejectWhenFind(Tail(result))
           [] Head(result) = "Error" -> "arg"
           [] Head(result) = "errorObject" -> "arg.error"
           [] Head(result) = "errorString" -> "Error(arg.error)"
           [] Head(result) = "string" -> "Error(arg)"
           [] OTHER -> RejectWhenFind(Tail(result))

\* Variant of the function given to then that resolves when the event
\* arguments hold no error.
RejectWhenThen_Resolve(w, result) ==
    IF w.hasMessage
    THEN [w EXCEPT !.outer = "rejected", !.outerReason = "Error(rejectMessage)"]
    ELSE IF result = <<>>
         THEN [w EXCEPT !.outer = "rejected", !.outerReason = "undefined"]
         ELSE IF RejectWhenFind(result) = "result"
              THEN [w EXCEPT !.outer = "resolved", !.outerReason = "result"]
              ELSE [w EXCEPT !.outer = "rejected", !.outerReason = RejectWhenFind(result)]

\* The function given to innerProm.then; result: the event arguments.
RejectWhenThen(w, result) ==
    IF w.hasMessage
    THEN [w EXCEPT !.outer = "rejected", !.outerReason = "Error(rejectMessage)"]
    ELSE IF result = <<>>
         THEN [w EXCEPT !.outer = "rejected", !.outerReason = "undefined"]
         ELSE [w EXCEPT !.outer = "rejected", !.outerReason = RejectWhenFind(result)]

\* The function given to catch.
RejectWhenCatch(w) == [w EXCEPT !.outer = "rejected", !.outerReason = w.reason]

\* The next reaction of the chain of the settled inner promise.
RejectWhenReaction(w, result) ==
    IF w.state = "resolved" THEN RejectWhenThen(w, result)
    ELSE IF w.hops = 0 THEN [w EXCEPT !.hops = 1]
    ELSE RejectWhenCatch(w)

\* rejectWhen(emitter, events, {condition, timeoutMs, prepend, rejectMessage}).
RejectWhenCall(e, p, events, hasCondition, timeoutMs, prepend, hasMessage) ==
    [ResolveWhenCall(e, p, events, hasCondition, timeoutMs, prepend)
        EXCEPT !.whens[p] = @ @@ [outer |-> "pending", outerReason |-> "none",
                                  hasMessage |-> hasMessage, hops |-> 0]]

RejectWhen(p, events, hasCondition, timeoutMs, hasMessage) ==
    /\ whens[p].state = "none"
    /\ Stepped(RejectWhenCall(EventState, p, events, hasCondition, timeoutMs, FALSE,
                              hasMessage))

\* The runtime runs the next reaction of promise p.
RejectReaction(p, result) ==
    /\ IsRejectWhen(whens[p])
    /\ whens[p].outer = "pending"
    /\ whens[p].state \in {"resolved", "rejected"}
    /\ Stepped([EventState EXCEPT !.whens[p] = RejectWhenReaction(@, result)])

NextRejectWhen ==
    \/ \E p \in Whens, events \in {<<"a">>, <<"a", "b">>}, hasCondition \in BOOLEAN,
          timeoutMs \in {Undefined, 1}, hasMessage \in BOOLEAN :
             RejectWhen(p, events, hasCondition, timeoutMs, hasMessage)
    \/ \E name \in EventNames, accepted \in SUBSET Whens : Emit(name, accepted)
    \/ \E p \in Whens : CancelWhen(p)
    \/ \E p \in Whens : WhenTimerFire(p)
    \/ \E p \in Whens, result \in ArgLists : RejectReaction(p, result)
    \/ Tick

SpecRejectWhen == Init /\ [][NextRejectWhen]_vars

\* The runtime runs every reaction that is queued.
SpecRejectWhenFair ==
    SpecRejectWhen
    /\ \A p \in Whens : WF_vars(\E result \in ArgLists : RejectReaction(p, result))

\* resolveWhenAny over pending inputs.
AnyState == [inputs |-> inputs, combined |-> combined, reactions |-> reactions]

AnyStepped(s) ==
    /\ inputs' = s.inputs
    /\ combined' = s.combined
    /\ reactions' = s.reactions
    /\ UNCHANGED <<containerVars, asyncVars, eventVars, now>>

\* resolveWhenAny(p0, .., pn): the inputs are pending when it is called;
\* makers[i]: what made input i.
ResolveWhenAny(makers) ==
    /\ combined.state = "none"
    /\ AnyStepped([AnyState EXCEPT
                      !.combined.state = "pending",
                      !.inputs = [i \in AnyInputs |-> [@[i] EXCEPT !.maker = makers[i]]]])

InputResolves(i) ==
    /\ combined.state # "none"
    /\ inputs[i].state = "pending" /\ inputs[i].inner = "pending"
    /\ AnyStepped(InputEvent(AnyState, i))

InputRejects(i) ==
    /\ combined.state # "none"
    /\ inputs[i].state = "pending" /\ inputs[i].inner = "pending"
    /\ AnyStepped(InputFail(AnyState, i))

CancelInput(i) ==
    /\ combined.state # "none"
    /\ inputs[i].cancelCalls = 0
    /\ AnyStepped(InputCancel(AnyState, i))

CancelCombined ==
    /\ combined.state # "none"
    /\ ~combined.cancelled
    /\ AnyStepped(AnyCancel(AnyState))

RunReaction ==
    /\ reactions # <<>>
    /\ AnyStepped(AnyReaction(AnyState))

NextAny ==
    \/ \E makers \in [AnyInputs -> Makers] : ResolveWhenAny(makers)
    \/ \E i \in AnyInputs : InputResolves(i)
    \/ \E i \in AnyInputs : InputRejects(i)
    \/ \E i \in AnyInputs : CancelInput(i)
    \/ CancelCombined
    \/ RunReaction

SpecAny == Init /\ [][NextAny]_vars

(***************************************************************************)
(* Vocabulary of the properties.  A step that is not a Tick is one call,   *)
(* described by last'.                                                     *)
(***************************************************************************)
Has(c, key) == JsMapHas(c.map, key)
Size(c) == Len(c.map)
Entries(c) == {c.map[i] : i \in 1..Len(c.map)}
LiveIds(c) == {e.id : e \in Entries(c)}
Armed(c, h) == \E t \in c.timers : t.handle = h
IsCall(op) == now' = now /\ last'.op = op
IsCallOn(op, key) == IsCall(op) /\ last'.key = key
Count(e) == IF IsFunction(e.expiryCallback) THEN 1 ELSE 0

\* A callback is started only by the step that removes its entry: the
\* count of an entry that is not removed in this step does not change, so
\* an entry removed without a call of its callback never gets one later.
NoCallOutsideRemoval(c, c2) ==
    \A id \in Ids :
        (id \notin LiveIds(c) \/ id \in LiveIds(c2)) => c2.invoked[id] = c.invoked[id]

\* C1: an entry inserted with a TTL stays present, unchanged, over every
\* step that is not an operation on its key; the fire of its timer happens
\* no earlier than its expiry, removes it (has false, size one less) and
\* leaves its callback, if it has one, invoked exactly once.
C1_Step(c, c2) ==
    \A e \in Entries(c) :
        IsNumber(e.expiry) =>
            /\ ( \/ now' # now
                 \/ IsCall("settle")
                 \/ IsCall("timer") /\ last'.key # e.timer
                 \/ last'.key # e.key /\ (IsCall("set") \/ IsCall("delete") \/ IsCall("expire")) )
               => e \in Entries(c2) /\ Armed(c2, e.timer)
            /\ IsCallOn("timer", e.timer)
               => /\ now >= e.expiry
                  /\ ~Has(c2, e.key)
                  /\ Size(c2) = Size(c) - 1
                  /\ c.invoked[e.id] = 0
                  /\ c2.invoked[e.id] = Count(e)
C1_TimedExpiry == [][C1_Step(emap, emap') /\ C1_Step(eset, eset')]_vars

C1_Witness ==
    /\ last.op = "timer"
    /\ \E g \in last.gone : g.cb /\ IsNumber(g.expiry) /\ now >= g.expiry
    /\ emap.invoked[last.key] = 1 /\ eset.invoked[last.key] = 1
    /\ Size(emap) = 0 /\ Size(eset) = 0

\* C2: no callback is ever invoked twice for one entry; the step that
\* ends an entry's lifecycle invokes its callback exactly once when it is a
\* timer fire, expire or expireAll, and not at all when it is delete, clear
\* or an overwriting set/add; no other step invokes it.
C2_Step(c, c2) ==
    /\ \A id \in Ids : c2.invoked[id] <= 1
    /\ NoCallOutsideRemoval(c, c2)
    /\ \A e \in Entries(c) :
          e.id \notin LiveIds(c2) =>
              \/ /\ IsCall("timer") \/ IsCall("expire") \/ IsCall("expireAll")
                 /\ c.invoked[e.id] = 0
                 /\ c2.invoked[e.id] = Count(e)
              \/ /\ IsCall("delete") \/ IsCall("clear") \/ IsCall("set")
                 /\ c2.invoked[e.id] = 0
C2_OncePerLifecycle == [][C2_Step(emap, emap') /\ C2_Step(eset, eset')]_vars

\* expireAll has just removed an entry with a callback, invoked once, after
\* an earlier lifecycle ended without a call of its callback.
C2_Witness ==
    /\ last.op = "expireAll"
    /\ \E g \in last.gone : g.cb
    /\ \E i, j \in Ids :
          /\ i \in emap.allIds /\ i \in eset.allIds
          /\ i \notin LiveIds(emap) /\ j \notin LiveIds(emap)
          /\ emap.invoked[i] = 1 /\ eset.invoked[i] = 1
          /\ j < nextId /\ emap.invoked[j] = 0 /\ eset.invoked[j] = 0

\* C3: delete of an entry that has a TTL and a callback, before its timer
\* has fired, leaves the key absent and the timer disarmed without invoking
\* the callback; the callback is not invoked in any later step, and the key
\* becomes present again only by a set/add of that key.
C3_Step(c, c2) ==
    /\ \A e \in Entries(c) :
          (IsCallOn("delete", e.key) /\ IsNumber(e.expiry) /\ IsFunction(e.expiryCallback))
              => /\ Armed(c, e.timer)
                 /\ ~Has(c2, e.key)
                 /\ ~Armed(c2, e.timer)
                 /\ c2.invoked[e.id] = 0
    /\ \A id \in Ids :
          (id < nextId /\ id \notin LiveIds(c) /\ c.invoked[id] = 0) => c2.invoked[id] = 0
    /\ \A k \in Keys : (~Has(c, k) /\ Has(c2, k)) => IsCallOn("set", k)
C3_DeleteStopsCallback == [][C3_Step(emap, emap') /\ C3_Step(eset, eset')]_vars

C3_Witness ==
    /\ last.op = "delete"
    /\ \E g \in last.gone : g.cb /\ IsNumber(g.expiry) /\ now >= g.expiry
    /\ ~Has(emap, last.key) /\ ~Has(eset, last.key)
    /\ \A id \in Ids : emap.invoked[id] = 0 /\ eset.invoked[id] = 0

\* C4: clear() leaves the container empty and every timer of an entry that
\* was present disarmed, starts no callback, and no callback of an entry it
\* removed is invoked in any later step.
C4_Step(c, c2) ==
    /\ IsCall("clear") =>
          /\ Size(c2) = 0
          /\ \A e \in Entries(c) : ~Armed(c2, e.timer)
          /\ c2.timers = {}
          /\ c2.invoked = c.invoked
          /\ c2.inflight = c.inflight
    /\ \A id \in Ids :
          (id < nextId /\ id \notin LiveIds(c) /\ ~Armed(c, id)) => ~Armed(c2, id)
    /\ NoCallOutsideRemoval(c, c2)
C4_ClearIsSilent == [][C4_Step(emap, emap') /\ C4_Step(eset, eset')]_vars

C4_Witness ==
    /\ last.op = "clear"
    /\ Cardinality(last.gone) = 2
    /\ \E g \in last.gone : g.cb /\ IsNumber(g.expiry) /\ now >= g.expiry
    /\ Size(emap) = 0 /\ Size(eset) = 0
    /\ \A id \in Ids : emap.invoked[id] = 0 /\ eset.invoked[id] = 0

\* C5: set/add on a key that holds an entry disarms the old entry's timer
\* and does not invoke its callback, then or later; the new entry is armed
\* exactly when its own options (or the defaults) give a TTL, with its own
\* expiry; and a timer fire removes only the entry that armed that timer,
\* no earlier than that entry's own expiry.
C5_Step(c, c2) ==
    /\ \A e \in Entries(c) :
          IsCallOn("set", e.key) =>
              /\ ~Armed(c2, e.timer)
              /\ c2.invoked[e.id] = 0
              /\ e.id \notin LiveIds(c2)
              /\ \E n \in Entries(c2) :
                    /\ n.key = e.key /\ n.id = nextId
                    /\ IF IsNumber(n.expiry)
                       THEN \E t \in c2.timers :
                               t.handle = n.timer /\ t.due = n.expiry /\ n.expiry >= now
                       ELSE n.timer = Undefined
    /\ \A e \in Entries(c) :
          (IsCall("timer") /\ e.id \notin LiveIds(c2)) =>
              last'.key = e.timer /\ IsNumber(e.expiry) /\ now >= e.expiry
    /\ \A id \in Ids :
          (id < nextId /\ id \notin LiveIds(c) /\ c.invoked[id] = 0) => c2.invoked[id] = 0
C5_OverwriteCancels == [][C5_Step(emap, emap') /\ C5_Step(eset, eset')]_vars

C5_Witness ==
    /\ last.op = "set"
    /\ \E g \in last.gone : g.cb /\ IsNumber(g.expiry) /\ now >= g.expiry
    /\ Has(emap, last.key) /\ Has(eset, last.key)
    /\ \A id \in Ids : emap.invoked[id] = 0 /\ eset.invoked[id] = 0

InFlightIds(c) == {r.id : r \in c.inflight}

\* C6 as stated: whenever an expiry callback is in flight, its key is
\* absent from the store.
C6_Original ==
    /\ \A r \in emap.inflight : ~Has(emap, r.key)
    /\ \A r \in eset.inflight : ~Has(eset, r.key)

\* C6, amended: on both expiry paths the entry is removed before its
\* callback starts, so the callback's own read at its start sees the key
\* absent; while the callback is in flight the key stays absent unless it
\* is inserted again by set/add.
C6_Step(c, c2) ==
    /\ \A id \in Ids :
          /\ c2.seen[id] \in {"none", "absent"}
          /\ c2.invoked[id] > c.invoked[id] =>
                id \notin LiveIds(c2) /\ c2.seen[id] = "absent"
    /\ \A r \in c2.inflight :
          IF r \in c.inflight
          THEN (~Has(c, r.key) /\ Has(c2, r.key)) => IsCallOn("set", r.key)
          ELSE ~Has(c2, r.key) /\ (IsCall("timer") \/ IsCall("expire") \/ IsCall("expireAll"))
C6_RemovedBeforeCallback == [][C6_Step(emap, emap') /\ C6_Step(eset, eset')]_vars

C6_Witness ==
    \E r \in emap.inflight :
        /\ r \in eset.inflight
        /\ ~Has(emap, r.key) /\ ~Has(eset, r.key)
        /\ emap.seen[r.id] = "absent" /\ eset.seen[r.id] = "absent"

\* C7 as stated: a failure of an expiry callback on the timer path reaches
\* expireErrorCallback at most once, only if one is configured, the entry
\* is gone, and no rejection is left unhandled.
C7_NoEscape ==
    \A id \in Ids :
        /\ emap.unhandled[id] = 0 /\ eset.unhandled[id] = 0
        /\ emap.sunk[id] <= 1 /\ eset.sunk[id] <= 1
        /\ (emap.sunk[id] = 1 \/ eset.sunk[id] = 1) =>
              /\ IsFunction(options.expireErrorCallback)
              /\ id \notin LiveIds(emap) /\ id \notin LiveIds(eset)

\* A reaction of the given kind is queued for lifecycle id.
Queued(c, kind, id, outcome) ==
    \E i \in 1..Len(c.micro) :
        c.micro[i] = [kind |-> kind, id |-> id, outcome |-> outcome]
\* The step runs the continuation of expire for lifecycle id.
Continues(c, id) ==
    /\ IsCall("microtask")
    /\ c.micro # <<>>
    /\ Head(c.micro).kind = "expire" /\ Head(c.micro).id = id

\* C8: a callback that throws or rejects during expire(key) rejects the
\* promise returned by expire, as the call returns when it throws and in
\* the microtask after its promise rejected; expireErrorCallback is not
\* called and no rejection is left unhandled; the entry is removed and its
\* timer disarmed.
C8_Step(c, c2, ret) ==
    /\ \A e \in Entries(c) :
          (IsCallOn("expire", e.key) /\ IsFunction(e.expiryCallback)) =>
              /\ ~Has(c2, e.key)
              /\ ~Armed(c2, e.timer)
              /\ c2.sunk = c.sunk /\ c2.unhandled = c.unhandled
              /\ c2.result[e.id] = ret
              /\ Expire(e.key, "throws") => ret = "rejected"
    /\ \A r \in c.inflight :
          (r.path = "expire" /\ CallbackSettle(r.id, "rejects")) =>
              /\ Queued(c2, "expire", r.id, "rejected")
              /\ c2.sunk = c.sunk /\ c2.unhandled = c.unhandled
              /\ r.id \notin LiveIds(c2) /\ ~Armed(c2, r.id)
    /\ \A id \in Ids :
          /\ (Continues(c, id) /\ Head(c.micro).outcome = "rejected") =>
                /\ c2.result[id] = "rejected"
                /\ c2.sunk = c.sunk /\ c2.unhandled = c.unhandled
          /\ c2.result[id] = "rejected" => c2.sunk[id] = 0 /\ c2.unhandled[id] = 0
C8_ExpirePropagates ==
    [][C8_Step(emap, emap', last'.mret) /\ C8_Step(eset, eset', last'.sret)]_vars

C8_Witness ==
    /\ IsFunction(options.expireErrorCallback)
    /\ last.op = "expire" /\ last.mret = "rejected" /\ last.sret = "rejected"
    /\ \E g \in last.gone : g.cb /\ IsNumber(g.expiry)
    /\ ~Has(emap, last.key) /\ ~Has(eset, last.key)
    /\ \A id \in Ids : emap.sunk[id] = 0 /\ eset.sunk[id] = 0

\* What C9 and its original statement share: expire of a present key
\* removes the entry, disarms its timer and calls its callback once if it
\* has one; expire of an absent key returns false and changes nothing.
C9_Common(c, c2, ret) ==
    \A k \in Keys :
        IsCallOn("expire", k) =>
            IF Has(c, k)
            THEN LET e == JsMapGet(c.map, k)
                 IN /\ ~Has(c2, k)
                    /\ Size(c2) = Size(c) - 1
                    /\ ~Armed(c2, e.timer)
                    /\ c2.invoked[e.id] = c.invoked[e.id] + Count(e)
                    /\ c2.result[e.id] = ret
            ELSE ret = "false" /\ c2 = c

\* C9 as stated: the promise of an expire of a present key resolves to true.
C9_OrigStep(c, c2, ret) ==
    /\ C9_Common(c, c2, ret)
    /\ \A k \in Keys : (IsCallOn("expire", k) /\ Has(c, k)) => ret \in {"true", "pending"}
    /\ \A id \in Ids :
          (c.result[id] = "pending" /\ c2.result[id] # "pending") => c2.result[id] = "true"
C9_Original ==
    [][C9_OrigStep(emap, emap', last'.mret) /\ C9_OrigStep(eset, eset', last'.sret)]_vars

\* C9, amended: expire of a present key removes the entry, disarms its
\* timer, calls its callback if it has one and awaits it.  The promise is
\* resolved to true as the call returns when the entry has no callback and
\* rejected as the call returns when the callback throws; otherwise it is
\* pending and settles in a microtask after the callback has returned
\* (to true) or after the promise it returned has settled (to true when
\* that resolved, rejected when that rejected).  expire of an absent key
\* resolves to false, calls nothing and changes nothing.
C9_Step(c, c2, ret) ==
    /\ C9_Common(c, c2, ret)
    /\ \A k \in Keys :
          (IsCallOn("expire", k) /\ Has(c, k)) =>
              LET id == JsMapGet(c.map, k).id
              IN /\ ~Runs(c, k) => ret = "true"
                 /\ (Runs(c, k) /\ Expire(k, "throws")) => ret = "rejected"
                 /\ (Runs(c, k) /\ Expire(k, "returns")) =>
                       /\ ret = "pending"
                       /\ Queued(c2, "expire", id, "true")
                       /\ id \notin InFlightIds(c2)
                 /\ (Runs(c, k) /\ Expire(k, "async")) =>
                       /\ ret = "pending"
                       /\ id \in InFlightIds(c2)
                       /\ \A i \in 1..Len(c2.micro) : c2.micro[i].id # id
    /\ \A r \in c.inflight :
          r.path = "expire" =>
              /\ c.result[r.id] = "pending"
              /\ CallbackSettle(r.id, "resolves") =>
                    c2.result[r.id] = "pending" /\ Queued(c2, "expire", r.id, "true")
              /\ CallbackSettle(r.id, "rejects") =>
                    c2.result[r.id] = "pending" /\ Queued(c2, "expire", r.id, "rejected")
    /\ \A id \in Ids :
          /\ Continues(c, id) => c2.result[id] = Head(c.micro).outcome
          /\ (c.result[id] = "pending" /\ c2.result[id] # "pending") => Continues(c, id)
C9_Expire ==
    [][C9_Step(emap, emap', last'.mret) /\ C9_Step(eset, eset', last'.sret)]_vars

C9_Witness ==
    /\ last.op = "expire" /\ last.mret = "false" /\ last.sret = "false"
    /\ \E id \in Ids :
          /\ emap.result[id] = "true" /\ eset.result[id] = "true"
          /\ emap.invoked[id] = 1 /\ eset.invoked[id] = 1

\* The step at which the promise of expireAll() resolves.
Resolves(c, c2) ==
    /\ ExpireAllPromise(c) = "pending"
    /\ ExpireAllPromise(c2) = "resolved"

\* C10 as stated: when the promise of expireAll() resolves the container
\* is empty.
C10_OrigStep(c, c2) ==
    Resolves(c, c2) =>
        /\ Size(c2) = 0
        /\ \A id \in c2.allIds : c2.result[id] = "true"
C10_Original == [][C10_OrigStep(emap, emap') /\ C10_OrigStep(eset, eset')]_vars

\* C10, amended: the call of expireAll() removes every entry present,
\* with or without a TTL, disarms its timer and calls its callback if it
\* has one, and returns a pending promise; when the promise resolves
\* every one of those callbacks has completed, none of those entries is
\* present, and an entry that is present was inserted after the call.
C10_Step(c, c2) ==
    /\ IsCall("expireAll") =>
          /\ Size(c2) = 0
          /\ c2.allIds = LiveIds(c)
          /\ ExpireAllPromise(c2) = "pending"
          /\ \A e \in Entries(c) :
                /\ ~Armed(c2, e.timer)
                /\ c2.invoked[e.id] = c.invoked[e.id] + Count(e)
                /\ c2.result[e.id] \in {"true", "rejected", "pending"}
    /\ Resolves(c, c2) =>
          /\ IsCall("microtask")
          /\ \A id \in c2.allIds :
                /\ c2.result[id] = "true"
                /\ id \notin InFlightIds(c2)
                /\ \A e \in Entries(c2) : e.id > id
C10_ExpireAll == [][C10_Step(emap, emap') /\ C10_Step(eset, eset')]_vars

C10_Witness ==
    /\ last.op = "microtask"
    /\ ExpireAllPromise(emap) = "resolved" /\ ExpireAllPromise(eset) = "resolved"
    /\ Cardinality(emap.allIds) = 2 /\ Cardinality(eset.allIds) = 2
    /\ \E id \in emap.allIds :
          emap.invoked[id] = 1 /\ eset.invoked[id] = 1 /\ emap.seen[id] = "absent"
    /\ \E id \in emap.allIds : emap.invoked[id] = 0 /\ eset.invoked[id] = 0
    /\ Size(emap) = 0 /\ Size(eset) = 0

\* C11: setExpiry, clearExpiry, setMinimumExpiry and expire on a key that is
\* not in the container return false and leave the container as it was:
\* entries, their order, expiries, armed timers and callback counts.
C11_Step(c, c2, ret) ==
    \A k \in Keys, op \in {"setExpiry", "clearExpiry", "setMinimumExpiry", "expire"} :
        (IsCallOn(op, k) /\ ~Has(c, k)) => (ret = "false" /\ c2 = c)
C11_AbsentKey ==
    [][C11_Step(emap, emap', last'.mret) /\ C11_Step(eset, eset', last'.sret)]_vars

C11_Witness ==
    /\ last.op = "setExpiry"
    /\ ~Has(emap, last.key) /\ ~Has(eset, last.key)
    /\ last.mret = "false" /\ last.sret = "false"
    /\ \E e \in Entries(emap) : Armed(emap, e.timer)

\* The expiry and the timer handle recorded for a key.
ExpiryOf(c, key) == IF Has(c, key) THEN JsMapGet(c.map, key).expiry ELSE Undefined
TimerOf(c, key) == IF Has(c, key) THEN JsMapGet(c.map, key).timer ELSE Undefined
ArmedAt(c, h, due) == \E t \in c.timers : t.handle = h /\ t.due = due

\* C12: on an entry with expiry e, setMinimumExpiry(key, m) returns true;
\* when e >= now + m the expiry and the timer are untouched, when
\* e < now + m the expiry becomes now + m with a newly armed timer and the
\* old timer disarmed; the expiry never becomes earlier.
C12_Step(c, c2, ret) ==
    \A k \in Keys, m \in ExpiryMsValues :
        (SetMinimumExpiry(k, m) /\ IsNumber(ExpiryOf(c, k))) =>
            /\ ret = "true"
            /\ ExpiryOf(c2, k) >= ExpiryOf(c, k)
            /\ IF ExpiryOf(c, k) >= now + m
               THEN /\ ExpiryOf(c2, k) = ExpiryOf(c, k)
                    /\ TimerOf(c2, k) = TimerOf(c, k)
                    /\ c2.timers = c.timers
               ELSE /\ ExpiryOf(c2, k) = now + m
                    /\ TimerOf(c2, k) # TimerOf(c, k)
                    /\ ArmedAt(c2, TimerOf(c2, k), now + m)
                    /\ ~Armed(c2, TimerOf(c, k))
C12_SetMinimumExpiry ==
    [][C12_Step(emap, emap', last'.mret) /\ C12_Step(eset, eset', last'.sret)]_vars

C12_Witness ==
    /\ last.op = "setMinimumExpiry"
    /\ last.mret = "true" /\ last.sret = "true"
    /\ ExpiryOf(emap, last.key) = now + 2 /\ ExpiryOf(eset, last.key) = now + 2
    /\ JsMapGet(emap.map, last.key).id = nextId - 1
    /\ ArmedAt(emap, TimerOf(emap, last.key), now + 2)
    /\ ArmedAt(eset, TimerOf(eset, last.key), now + 2)

\* C13: setMinimumExpiry on a present key without expiry returns false and
\* leaves the entry as it was, without expiry and without timer.
C13_Step(c, c2, ret) ==
    \A k \in Keys :
        (IsCallOn("setMinimumExpiry", k) /\ Has(c, k) /\ ~IsNumber(ExpiryOf(c, k))) =>
            /\ ret = "false"
            /\ c2 = c
            /\ ExpiryOf(c2, k) = Undefined
            /\ TimerOf(c2, k) = Undefined
            /\ \A t \in c2.timers : t.handle # JsMapGet(c2.map, k).id
C13_NeverAssignsTtl ==
    [][C13_Step(emap, emap', last'.mret) /\ C13_Step(eset, eset', last'.sret)]_vars

C13_Witness ==
    /\ last.op = "setMinimumExpiry"
    /\ Has(emap, last.key) /\ Has(eset, last.key)
    /\ last.mret = "false" /\ last.sret = "false"
    /\ ExpiryOf(emap, last.key) = Undefined /\ ExpiryOf(eset, last.key) = Undefined

\* C14: clearExpiry on a present key returns true, disarms the entry's
\* timer and clears its expiry; the key, its value, its callback and its
\* position stay, every other entry and timer is untouched and no callback
\* is invoked.  A timer never removes an entry that has no expiry.
C14_Step(c, c2, ret) ==
    /\ \A k \in Keys :
          (IsCallOn("clearExpiry", k) /\ Has(c, k)) =>
              /\ ret = "true"
              /\ ExpiryOf(c2, k) = Undefined
              /\ TimerOf(c2, k) = Undefined
              /\ Len(c2.map) = Len(c.map)
              /\ \A i \in 1..Len(c.map) :
                    c2.map[i] = IF c.map[i].key = k
                                THEN [c.map[i] EXCEPT !.expiry = Undefined,
                                                      !.timer = Undefined]
                                ELSE c.map[i]
              /\ c2.timers = {t \in c.timers : t.handle # TimerOf(c, k)}
              /\ c2.invoked = c.invoked
              /\ c2.inflight = c.inflight
    /\ IsCall("timer") =>
          \A e \in Entries(c) : e.expiry = Undefined => e \in Entries(c2)
C14_ClearExpiry ==
    [][C14_Step(emap, emap', last'.mret) /\ C14_Step(eset, eset', last'.sret)]_vars

\* With a default TTL every insertion arms a timer: the entry had one.
C14_Witness ==
    /\ options.defaultExpiryMs = 1
    /\ last.op = "clearExpiry"
    /\ last.mret = "true" /\ last.sret = "true"
    /\ ExpiryOf(emap, last.key) = Undefined /\ ExpiryOf(eset, last.key) = Undefined
    /\ Has(emap, last.key) /\ Has(eset, last.key)
    /\ IsFunction(JsMapGet(emap.map, last.key).expiryCallback)
    /\ now >= 1

\* C15: setExpiry(key, ms) on a present key returns true and acts as set
\* with the entry's own value and callback: both are preserved, the
\* previous timer is disarmed and exactly one timer is armed, due at
\* now + ms, which is the entry's expiry; the other entries are untouched.
C15_Effects(c, c2, ret, k, ms) ==
    LET old == JsMapGet(c.map, k)
        new == JsMapGet(c2.map, k)
    IN /\ ret = "true"
       /\ Has(c2, k)
       /\ new = [old EXCEPT !.expiry = now + ms, !.timer = new.timer, !.id = new.id]
       /\ new.timer # old.timer
       /\ c2.timers \ c.timers = {t \in c2.timers : t.handle = new.timer}
       /\ Cardinality(c2.timers \ c.timers) = 1
       /\ ArmedAt(c2, new.timer, now + ms)
       /\ c.timers \ c2.timers = {t \in c.timers : t.handle = old.timer}
       /\ JsMapDelete(c2.map, k) = JsMapDelete(c.map, k)
       /\ c2.invoked = c.invoked
C15_Step ==
    \A k \in Keys, ms \in ExpiryMsValues :
        (SetExpiry(k, ms) /\ Has(emap, k) /\ Has(eset, k)) =>
            /\ C15_Effects(emap, emap', last'.mret, k, ms)
            /\ C15_Effects(eset, eset', last'.sret, k, ms)
            /\ emap' = MapSet(emap, k, MapGet(emap, k), ms,
                              JsMapGet(emap.map, k).expiryCallback).c
            /\ eset' = SetAdd(eset, k, ms, JsMapGet(eset.map, k).expiryCallback).c
C15_SetExpiryIsSet == [][C15_Step]_vars

C15_Witness ==
    /\ last.op = "setExpiry"
    /\ last.mret = "true" /\ last.sret = "true"
    /\ Has(emap, last.key) /\ Has(eset, last.key)
    /\ JsMapGet(emap.map, last.key).id = nextId - 1
    /\ JsMapGet(emap.map, last.key).expiryCallback = "f"
    /\ ExpiryOf(emap, last.key) = now + 2 /\ ExpiryOf(eset, last.key) = now + 2
    /\ Cardinality(emap.timers) = 1 /\ Cardinality(eset.timers) = 1
    /\ Size(emap) = 2

\* C17: set/add takes the given expiryMs and expiryCallback when given and
\* the container's defaults when omitted; with neither, the entry has no
\* expiry, no timer and no callback.
C17_Effects(c, c2, k, ms, cb) ==
    LET ttl == IF ms # Undefined THEN ms ELSE options.defaultExpiryMs
        fn == IF cb # NoCallback THEN cb ELSE options.defaultExpiryCallback
        new == JsMapGet(c2.map, k)
    IN /\ Has(c2, k)
       /\ new.expiryCallback = fn
       /\ IF ttl # Undefined
          THEN /\ new.expiry = now + ttl
               /\ ArmedAt(c2, new.timer, now + ttl)
               /\ \A t \in c2.timers : t.handle = new.timer => t.expiryCallback = fn
          ELSE /\ new.expiry = Undefined
               /\ new.timer = Undefined
               /\ c2.timers \subseteq c.timers
C17_Step ==
    \A k \in Keys, ms \in ExpiryMsValues \cup {Undefined}, cb \in {"f", NoCallback} :
        Add(k, "a", ms, cb) =>
            C17_Effects(emap, emap', k, ms, cb) /\ C17_Effects(eset, eset', k, ms, cb)
C17_Defaults == [][C17_Step]_vars

\* An explicit TTL beside the default one, and the default callback.
C17_Witness ==
    /\ options.defaultExpiryMs = 1 /\ options.defaultExpiryCallback = "g"
    /\ last.op = "set"
    /\ Has(emap, last.key) /\ Has(eset, last.key)
    /\ JsMapGet(emap.map, last.key).id = nextId - 1
    /\ ExpiryOf(emap, last.key) = now + 2 /\ ExpiryOf(eset, last.key) = now + 2
    /\ JsMapGet(emap.map, last.key).expiryCallback = "g"
    /\ JsMapGet(eset.map, last.key).expiryCallback = "g"

\* The keys an iterator has delivered.
OutKeys(c) == [i \in 1..Len(c.iter.out) |-> c.iter.out[i].key]

\* C16 as stated: an iteration visits the present keys in insertion order;
\* whatever the moment at which the keys are taken to be present, an
\* iteration that has ended has delivered no key twice.
C16_OrigStep(c, c2, ret) ==
    (IsCall("next") /\ ret.done) =>
        \A i, j \in 1..Len(OutKeys(c2)) : OutKeys(c2)[i] = OutKeys(c2)[j] => i = j
InsertionOrdered(c) ==
    \A i, j \in 1..Len(c.map) : i < j => c.map[i].id < c.map[j].id
IsPrefix(p, q) == Len(p) <= Len(q) /\ \A i \in 1..Len(p) : p[i] = q[i]
C16_Map(c) ==
    /\ InsertionOrdered(c)
    /\ Len(MapKeys(c)) = Size(c)
    /\ \A i \in 1..Size(c) :
          /\ MapKeys(c)[i] = c.map[i].key
          /\ MapHas(c, MapKeys(c)[i])
          /\ MapEntries(c)[i] = <<MapKeys(c)[i], MapGet(c, MapKeys(c)[i])>>
          /\ MapValues(c)[i] = MapGet(c, MapKeys(c)[i])
          /\ \A j \in 1..Size(c) : MapKeys(c)[j] = MapKeys(c)[i] => j = i
    /\ MapIterator(c) = MapEntries(c)
    /\ last.op = "forEach" =>
          /\ IsPrefix(c.each.visited, [i \in 1..Size(c) |-> <<MapValues(c)[i], MapKeys(c)[i]>>])
          /\ last.mret # "rejected" => Len(c.each.visited) = Size(c)
C16_Set(c) ==
    /\ InsertionOrdered(c)
    /\ Len(SetValues(c)) = Size(c)
    /\ \A i \in 1..Size(c) :
          /\ SetValues(c)[i] = c.map[i].key
          /\ SetHas(c, SetValues(c)[i])
          /\ SetEntries(c)[i] = <<SetValues(c)[i], SetValues(c)[i]>>
          /\ \A j \in 1..Size(c) : SetValues(c)[j] = SetValues(c)[i] => j = i
    /\ SetKeys(c) = SetValues(c)
    /\ SetIterator(c) = SetValues(c)
    /\ last.op = "forEach" =>
          /\ IsPrefix(c.each.visited, SetEntries(c))
          /\ last.sret # "rejected" => Len(c.each.visited) = Size(c)
C16_Step(c, c2) ==
    \A k \in Keys :
        (IsCallOn("set", k) /\ Has(c2, k)) =>
            /\ c2.map[Len(c2.map)].key = k
            /\ JsMapKeys(JsMapDelete(c2.map, k)) = JsMapKeys(JsMapDelete(c.map, k))
C16_Next(c, c2, ret, Element(_, _)) ==
    LET later == {e \in Entries(c) : e.id > c.iter.pos}
    IN IsCall("next") =>
          /\ ret.done <=> (c.iter.done \/ later = {})
          /\ ret.done => c2.iter.done /\ c2.iter.out = c.iter.out
          /\ (ret.done /\ ~c.iter.done) =>
                /\ \A e \in Entries(c) : \E i \in 1..Len(c.iter.out) : c.iter.out[i].id = e.id
                /\ (\A i \in 1..Len(c.iter.out) : c.iter.out[i].id \in LiveIds(c))
                      => OutKeys(c2) = JsMapKeys(c2.map)
          /\ ~ret.done =>
                \E e \in later :
                    /\ \A f \in later : e.id <= f.id
                    /\ ret.value = Element(c.iter.which, e)
                    /\ c2.iter.out = Append(c.iter.out, [id |-> e.id, key |-> e.key])
C16_Iteration(c) ==
    /\ \A i, j \in 1..Len(c.iter.out) : i < j => c.iter.out[i].id < c.iter.out[j].id
    /\ \A e \in Entries(c) :
          e.id <= c.iter.pos => \E i \in 1..Len(c.iter.out) : c.iter.out[i].id = e.id
    /\ (\A i \in 1..Len(c.iter.out) : c.iter.out[i].id \in LiveIds(c)) =>
          IsPrefix(c.iter.out, Listed(c.map))
C18_Original ==
    /\ last.op = "forEach" =>
          Len(emap.each.visited) = Size(emap) /\ Len(eset.each.visited) = Size(eset)
    /\ emap.each.promise \in {"resolved", "rejected"} => emap.each.pending = {}
    /\ eset.each.promise \in {"resolved", "rejected"} => eset.each.pending = {}

\* C18 amended: forEach starts the callback of every entry present, once
\* each and in order, before awaiting any, unless a callback throws, which
\* ends the loop and rejects the promise; otherwise the promise is pending
\* as the call returns, resolves (in a microtask) only when every started
\* callback has resolved, and rejects once one has rejected, whatever the
\* others are doing.
C18_Step(c, c2, ret, entries) ==
    /\ IsCall("forEach") =>
          /\ IsPrefix(c2.each.visited, entries)
          /\ ret = c2.each.promise
          /\ ret \in {"pending", "rejected"}
          /\ ret # "rejected" =>
                /\ c2.each.visited = entries
                /\ c2.each.pending \subseteq {entries[i][2] : i \in 1..Len(entries)}
          /\ ret = "rejected" => Len(c2.each.visited) >= 1
    /\ c2.each.promise = "resolved" => c2.each.pending = {}
    /\ c2.each.promise = "pending" => c2.each.pending # {} \/ c2.micro # <<>>
    /\ (c2.each.promise = "rejected" /\ c.each.promise # "rejected") =>
          \/ IsCall("forEach")
          \/ IsCall("microtask") /\ c.each.inner = "rejected"
    /\ (c2.each.promise = "resolved" /\ c.each.promise # "resolved") =>
          IsCall("microtask") /\ c.each.inner = "resolved"
    /\ (c2.each.inner = "rejected" /\ c.each.inner # "rejected") =>
          /\ IsCall("microtask")
          /\ Head(c.micro).kind = "eachElement" /\ Head(c.micro).outcome = "rejected"
    /\ (c2.each.inner = "resolved" /\ c.each.inner # "resolved") =>
          c2.each.pending = {} /\ c2.each.left = {}
    /\ \A k \in Keys :
          (ForEachSettle(k, "rejects") /\ k \in c.each.pending /\ c.each.inner = "pending")
              => c.each.promise = "pending" /\ Queued(c2, "eachElement", k, "rejected")
C18_ForEach ==
    [][/\ C18_Step(emap, emap', last'.mret,
                   [i \in 1..Size(emap) |-> <<MapValues(emap)[i], MapKeys(emap)[i]>>])
       /\ C18_Step(eset, eset', last'.sret, SetEntries(eset))]_vars

\* Two callbacks started; one has rejected, the other is still running.
C18_Witness ==
    /\ last.op = "microtask"
    /\ Len(emap.each.visited) = 2 /\ Len(eset.each.visited) = 2
    /\ emap.each.promise = "rejected" /\ eset.each.promise = "rejected"
    /\ Cardinality(emap.each.pending) = 1 /\ Cardinality(eset.each.pending) = 1

\* A call failed: it threw, or the promise it returned is rejected.
Failed(ret) == ret \in {"rejected", "thrown"}

\* C19 as stated: only expire and expireAll fail; every other operation,
\* forEach included, neither throws nor rejects.
C19_Original ==
    /\ last.op \notin {"expire", "expireAll"} => ~Failed(last.mret) /\ ~Failed(last.sret)
    /\ emap.each.promise # "rejected" /\ eset.each.promise # "rejected"

\* C19 amended: only expire, expireAll and forEach fail, and only through a
\* callback that throws or rejects; set/add, delete, clear, clearExpiry,
\* setExpiry, setMinimumExpiry and the reads never do.
C19_MapReads(c) ==
    /\ \A k \in Keys :
          /\ MapHas(c, k) \in BOOLEAN
          /\ MapGet(c, k) \in Values \cup {NoValue}
          /\ MapGetExpiry(c, k) \in Int
    /\ MapSize(c) \in Nat
    /\ Len(MapEntries(c)) = MapSize(c)
C19_SetReads(c) ==
    /\ \A k \in Keys : SetHas(c, k) \in BOOLEAN /\ SetGetExpiry(c, k) \in Int
    /\ SetSize(c) \in Nat
    /\ Len(SetEntries(c)) = SetSize(c)
C19_Step(c, c2, ret) ==
    /\ \A op \in {"set", "delete", "clear", "clearExpiry", "setExpiry", "setMinimumExpiry"} :
          IsCall(op) => ~Failed(ret)
    /\ (IsCall("forEach") /\ Failed(ret)) =>
          \E bs \in [Keys -> Behaviours] :
              ForEach(bs) /\ \E k \in Keys : Has(c, k) /\ bs[k] = "throws"
    /\ (c2.each.promise = "rejected" /\ c.each.promise # "rejected") =>
          \/ IsCall("forEach") /\ Failed(ret)
          \/ IsCall("microtask") /\ c.each.inner = "rejected"
    /\ (c2.each.inner = "rejected" /\ c.each.inner # "rejected") =>
          \E k \in Keys : Queued(c, "eachElement", k, "rejected")
    /\ \A k \in Keys :
          (Queued(c2, "eachElement", k, "rejected") /\ ~Queued(c, "eachElement", k, "rejected"))
              => ForEachSettle(k, "rejects")
    /\ \A k \in Keys :
          (IsCallOn("expire", k) /\ Failed(ret)) =>
              Has(c, k) /\ IsFunction(JsMapGet(c.map, k).expiryCallback) /\ Expire(k, "throws")
C19_OnlyCallbacksFail ==
    [][/\ C19_Step(emap, emap', last'.mret) /\ C19_Step(eset, eset', last'.sret)
       /\ C19_MapReads(emap') /\ C19_SetReads(eset')]_vars

\* forEach rejected by a callback that threw, beside calls that succeeded.
C19_Witness ==
    /\ last.op = "forEach"
    /\ last.mret = "rejected" /\ last.sret = "rejected"
    /\ Size(emap) = 2 /\ Size(eset) = 2
    /\ Len(emap.each.visited) = 2 /\ Len(eset.each.visited) = 2
    /\ emap.each.pending # {} /\ eset.each.pending # {}

\* C20: with value = key and the same calls, the set and the map agree in
\* every state: present keys and their order, expiries, armed timers,
\* values returned, callbacks invoked and promises.
SetView(t) == [handle |-> t.handle, due |-> t.due, key |-> t.value,
               expiryCallback |-> t.expiryCallback]
MapView(t) == [handle |-> t.handle, due |-> t.due, key |-> t.key,
               expiryCallback |-> t.expiryCallback]
C20_SetRefinesMap ==
    /\ MapKeys(emap) = SetKeys(eset)
    /\ MapValues(emap) = SetValues(eset)
    /\ MapEntries(emap) = SetEntries(eset)
    /\ MapSize(emap) = SetSize(eset)
    /\ \A k \in Keys :
          /\ MapHas(emap, k) = SetHas(eset, k)
          /\ MapGetExpiry(emap, k) = SetGetExpiry(eset, k)
          /\ MapHas(emap, k) =>
                /\ MapGet(emap, k) = k
                /\ TimerOf(emap, k) = TimerOf(eset, k)
                /\ JsMapGet(emap.map, k).expiryCallback = JsMapGet(eset.map, k).expiryCallback
    /\ {MapView(t) : t \in emap.timers} = {SetView(t) : t \in eset.timers}
    /\ Cardinality(emap.timers) = Cardinality(eset.timers)
    /\ last.mret = last.sret
    /\ emap.invoked = eset.invoked
    /\ emap.seen = eset.seen
    /\ emap.inflight = eset.inflight
    /\ emap.result = eset.result
    /\ emap.sunk = eset.sunk
    /\ emap.micro = eset.micro
    /\ ExpireAllPromise(emap) = ExpireAllPromise(eset)

C20_Witness ==
    /\ last.op = "timer"
    /\ emap.invoked[1] = 1 /\ eset.invoked[1] = 1
    /\ MapSize(emap) = 1 /\ SetSize(eset) = 1
    /\ emap.timers # {} /\ eset.timers # {}

\* C28: each present key has at most one armed timer, every armed timer is
\* the timer of the entry now stored at its key, and a step that ends or
\* replaces an entry, or clears its expiry, leaves that entry's timer
\* disarmed.
C28_State(c, timers) ==
    /\ \A k \in Keys : Cardinality({t \in timers : t.key = k}) <= 1
    /\ \A t \in timers : Has(c, t.key) /\ TimerOf(c, t.key) = t.handle
    /\ Cardinality(timers) = Cardinality(c.timers)
C28_Step(c, c2) ==
    \A e \in Entries(c) :
        (e.id \notin LiveIds(c2) \/ TimerOf(c2, e.key) # e.timer) => ~Armed(c2, e.timer)
C28_OneTimerPerKey ==
    [][/\ C28_State(emap', {MapView(t) : t \in emap'.timers})
       /\ C28_State(eset', {SetView(t) : t \in eset'.timers})
       /\ C28_Step(emap, emap') /\ C28_Step(eset, eset')]_vars

\* An overwrite has replaced a timed entry: one timer, the new one.
C28_Witness ==
    /\ last.op = "set"
    /\ last.gone # {} /\ \E g \in last.gone : IsNumber(g.expiry)
    /\ Cardinality(emap.timers) = 1 /\ Cardinality(eset.timers) = 1
    /\ Has(emap, last.key) /\ TimerOf(emap, last.key) = 2
    /\ TimerOf(eset, last.key) = 2

\* C29: for every present key, getExpiry is a number exactly when a timer
\* is armed for that entry, due at that expiry, and undefined exactly when
\* no timer is armed for the key.
C29_State(c, timers, getExpiry) ==
    \A k \in Keys :
        Has(c, k) =>
            /\ IsNumber(getExpiry[k]) <=>
                   \E t \in timers : t.key = k /\ t.handle = TimerOf(c, k)
            /\ getExpiry[k] = Undefined <=> ~\E t \in timers : t.key = k
            /\ \A t \in timers : t.key = k => t.due = getExpiry[k]
C29_ExpiryIffTimer ==
    /\ C29_State(emap, {MapView(t) : t \in emap.timers},
                 [k \in Keys |-> MapGetExpiry(emap, k)])
    /\ C29_State(eset, {SetView(t) : t \in eset.timers},
                 [k \in Keys |-> SetGetExpiry(eset, k)])

\* A timed entry beside one whose expiry was cleared.
C29_Witness ==
    /\ last.op = "clearExpiry" /\ last.mret = "true"
    /\ MapSize(emap) = 2 /\ SetSize(eset) = 2
    /\ Cardinality(emap.timers) = 1 /\ Cardinality(eset.timers) = 1
    /\ MapGetExpiry(emap, last.key) = Undefined
    /\ SetGetExpiry(eset, last.key) = Undefined

\* C30: expireAll() expires exactly the keys present when it was called,
\* each exactly once, also when an expiry callback inserts keys into the
\* same container or inserts its own key again with the same callback:
\* every key passed to expire was present at the call, none is passed
\* twice, and when the loop has ended all of them have been.
C30_Loop(c) ==
    /\ \A i \in 1..Len(c.loop.expired) : c.loop.expired[i] \in c.loop.present
    /\ \A i, j \in 1..Len(c.loop.expired) :
           c.loop.expired[i] = c.loop.expired[j] => i = j
    /\ last.op = "expireAllEnd" =>
           {c.loop.expired[i] : i \in 1..Len(c.loop.expired)} = c.loop.present
C30_ExpireAllReentrant == C30_Loop(emap) /\ C30_Loop(eset)

\* C21: Mutex provides mutual exclusion: between an acquire() that resolved
\* to true and the next release() no other acquire() resolves to true,
\* whatever the number of callers waiting in acquire and the order of
\* their polling steps.  holders counts the acquire() calls that resolved
\* to true since the last release that did not throw.
C21_MutualExclusion == ghost.holders <= 1
C21_Witness ==
    /\ owned /\ ghost.released >= 1 /\ ghost.acquired >= 2
    /\ \E w, w2 \in Callers :
           /\ tasks[w].op = "acquire" /\ tasks[w].result = "true" /\ tasks[w].evals >= 2
           /\ tasks[w2].op = "acquire" /\ tasks[w2].pc = "delay" /\ tasks[w2].evals >= 2

\* C22: acquire() on a free Mutex resolves to true and marks it owned;
\* acquire(timeoutMs) on a Mutex that stays owned until the timeout has
\* elapsed resolves to false, past its deadline, and leaves the Mutex owned
\* by its holder; acquire() never rejects.
C22_Call(w) ==
    (\E timeoutMs \in TimeoutMsValues : Acquire(w, timeoutMs)) /\ ~owned
        => tasks'[w].result = "true" /\ owned'
C22_Settle(w) ==
    /\ tasks[w].op = "acquire" /\ tasks[w].result = "pending"
         /\ tasks'[w].result # "pending" /\ tasks[w].stayed
            => /\ tasks'[w].result = "false"
               /\ tasks[w].promise = "timeout" /\ now > tasks[w].timeoutTime
               /\ owned /\ owned' /\ ghost'.holders = ghost.holders
    /\ tasks[w].result = "pending" /\ tasks'[w].result = "false" => owned' = owned
    /\ tasks'[w].op = "acquire" => tasks'[w].result \in {"pending", "true", "false"}
C22_Acquire == [][\A w \in Callers : C22_Call(w) /\ C22_Settle(w)]_vars
C22_Witness ==
    \E w \in Callers :
        /\ tasks[w].op = "acquire" /\ tasks[w].result = "false" /\ tasks[w].stayed
        /\ owned /\ ghost.holders = 1 /\ ghost.released = 0

\* C23: release() on a Mutex that is not owned throws
\* Error("Unbalanced release") and leaves it not owned; on an owned Mutex
\* it returns and makes it not owned; the releases that returned never
\* outnumber the acquires that resolved to true.
C23_Release ==
    [][/\ Release =>
             /\ ~owned'
             /\ ghost'.release = IF owned THEN NoValue ELSE "Unbalanced release"
       /\ ghost'.released <= ghost'.acquired]_vars
C23_Witness ==
    /\ ghost.release = "Unbalanced release" /\ ~owned
    /\ ghost.released >= 1 /\ ghost.released = ghost.acquired

\* C26: delayUntil evaluates the condition at least once, resolves as soon
\* as an evaluation returned true and never otherwise, and rejects with
\* Error("timeout") only once the deadline now + timeoutMs has passed, at the
\* first wake-up past it.  t is a call before a step, t2 after it.
C26_Task(t, t2) ==
    t2.op = "delayUntil" =>
        /\ t2.evals >= 1
        /\ t2.promise \in {"pending", "resolved", "timeout", "exception"}
        /\ t2.promise = "resolved" => t2.value = "true"
        /\ t.pc = "awaitCondition" /\ t.value = "true" /\ t2 # t => t2.promise = "resolved"
        /\ t.promise = "pending" /\ t2.promise = "timeout"
              => now > t.timeoutTime /\ t.value # "true"
        /\ t.pc = "resumed" /\ t2 # t /\ now > t.timeoutTime => t2.promise = "timeout"
C26_DelayUntil == [][\A w \in Callers : C26_Task(tasks[w], tasks'[w])]_vars
C26_Witness ==
    \E w, w2 \in Callers :
        /\ tasks[w].op = "delayUntil" /\ tasks[w].promise = "timeout"
        /\ tasks[w2].op = "delayUntil" /\ tasks[w2].promise = "resolved"
        /\ tasks[w2].evals >= 2

\* C27: in delayUntil an exception of the condition rejects the promise
\* at once, with that exception, when swallowExceptions is false; when it
\* is true the exception counts as a false evaluation: the next step is
\* the delay before the next evaluation, and the promise can resolve later.
C27_Task(t, t2) ==
    t2.op = "delayUntil" =>
        /\ t.pc = "awaitCondition" /\ t.value = "throws" /\ ~t.swallowExceptions /\ t2 # t
              => t2.promise = "exception" /\ t2.evals = t.evals /\ t2.pc = "idle"
        /\ t.pc = "awaitCondition" /\ t.value = "throws" /\ t.swallowExceptions /\ t2 # t
              => t2 = [t EXCEPT !.pc = "delay", !.due = now + CheckIntervalMs]
        /\ t2.promise = "exception" => ~t2.swallowExceptions /\ t2.value = "throws"
C27_Exceptions == [][\A w \in Callers : C27_Task(tasks[w], tasks'[w])]_vars
C27_Witness ==
    \E w \in Callers :
        /\ tasks[w].op = "delayUntil" /\ tasks[w].swallowExceptions /\ tasks[w].threw
        /\ tasks[w].promise = "resolved" /\ tasks[w].evals >= 2

\* C24: whichever way a resolveWhen promise settles (a matching event,
\* cancel() or the timeout), afterwards none of its listeners is left on
\* the emitter under any event name and its timer is not armed; cancel()
\* rejects with Error("Cancelled"), the timeout with Error("Timeout").
C24_Clean(p) ==
    whens[p].state \in {"resolved", "rejected"} =>
        /\ ~Registered(emitter, p)
        /\ ~IsNumber(whens[p].timer)
        /\ whens[p].completed
C24_Reason(p) ==
    /\ CancelWhen(p) /\ whens[p].state = "pending"
          => whens'[p].state = "rejected" /\ whens'[p].reason = "Cancelled"
    /\ WhenTimerFire(p) => whens'[p].state = "rejected" /\ whens'[p].reason = "Timeout"
    /\ whens[p].state = "pending" /\ whens'[p].state = "resolved"
          => \E name \in EventNames, accepted \in SUBSET Whens :
                 /\ Emit(name, accepted)
                 /\ \E i \in 1..Len(whens[p].eventNames) : whens[p].eventNames[i] = name
C24_SettledIsClean == [][\A p \in Whens : C24_Clean(p)' /\ C24_Reason(p)]_vars
C24_Witness ==
    \E p, q \in Whens :
        /\ whens[p].state = "resolved" /\ Len(whens[p].eventNames) = 2
        /\ whens[p].timeoutMs = 1
        /\ whens[q].state = "rejected" /\ whens[q].reason = "Timeout"
        /\ Len(whens[q].eventNames) = 2

\* C25: resolveWhenAny settles with the first input to settle: it resolves
\* with the index of that input if it resolved and rejects with its reason
\* if it rejected, and calls cancel() on every other input; cancel() on the
\* combined promise before any input settles cancels every input and
\* rejects the combined promise with Error("Cancelled").
C25_FirstToSettle ==
    /\ combined.state \in {"resolved", "rejected"} /\ ~combined.cancelled =>
          /\ inputs[combined.first].state = "resolved"
                => combined.state = "resolved" /\ combined.value = combined.first
          /\ inputs[combined.first].state = "rejected"
                => /\ combined.state = "rejected"
                   /\ combined.reason = inputs[combined.first].reason
          /\ \A i \in AnyInputs : i # combined.first => inputs[i].cancelCalls >= 1
    /\ combined.cancelled =>
          /\ combined.state = "rejected" /\ combined.reason = "Cancelled"
          /\ \A i \in AnyInputs : inputs[i].cancelCalls >= 1

\* C31: when an expiry callback throws or rejects during expireAll(), the
\* promise of expireAll rejects; the call has nevertheless removed every
\* entry that was present, disarmed its timer and started the callback of
\* every entry that has one, those after the failing one included.
C31_Call(c, c2, bs) ==
    /\ Size(c2) = 0
    /\ ExpireAllPromise(c2) = "pending"
    /\ \A e \in Entries(c) :
          /\ ~Armed(c2, e.timer)
          /\ c2.invoked[e.id] = c.invoked[e.id] + Count(e)
          /\ Runs(c, e.key) /\ bs[e.key] = "throws" => c2.result[e.id] = "rejected"
          /\ Runs(c, e.key) /\ bs[e.key] = "async"
                => c2.result[e.id] = "pending" /\ e.id \in InFlightIds(c2)
          /\ Runs(c, e.key) /\ bs[e.key] = "returns"
                => c2.result[e.id] = "pending" /\ Queued(c2, "expire", e.id, "true")
C31_Settle(c, c2) ==
    /\ Resolves(c, c2) => \A id \in c2.allIds : c2.result[id] # "rejected"
    /\ ExpireAllPromise(c2) = "rejected" => \E id \in c2.allIds : c2.result[id] = "rejected"
\* A callback of the latest expireAll() has failed and its promise is pending.
C31_Failed(c) ==
    /\ ExpireAllPromise(c) = "pending"
    /\ \E id \in c.allIds : c.result[id] = "rejected"
C31_Safe ==
    [][/\ IsCall("expireAll") =>
             \A bs \in [Keys -> Behaviours] :
                 ExpireAll(bs) => C31_Call(emap, emap', bs) /\ C31_Call(eset, eset', bs)
       /\ C31_Settle(emap, emap') /\ C31_Settle(eset, eset')]_vars
C31_ExpireAllFailure ==
    /\ C31_Safe
    /\ C31_Failed(emap) ~> ExpireAllPromise(emap) = "rejected"
    /\ C31_Failed(eset) ~> ExpireAllPromise(eset) = "rejected"
C31_Witness ==
    /\ last.op = "microtask"
    /\ ExpireAllPromise(emap) = "rejected" /\ ExpireAllPromise(eset) = "rejected"
    /\ Size(emap) = 0 /\ Size(eset) = 0
    /\ \E id, id2 \in emap.allIds :
          /\ id < id2
          /\ emap.result[id] = "rejected" /\ eset.result[id] = "rejected"
          /\ emap.result[id2] = "true" /\ eset.result[id2] = "true"
          /\ emap.invoked[id2] = 1 /\ eset.invoked[id2] = 1

\* C32: an entry without expiry is never removed by the passage of time:
\* it has no timer, it stays as it is over a tick, over every timer fire,
\* over every microtask, over clearExpiry and setMinimumExpiry and over an
\* operation on another key,
\* and the step that ends it is
\* delete, clear, expire, expireAll or a set/add/setExpiry of its key.
C32_Step(c, c2, timers) ==
    \A e \in Entries(c) :
        ~IsNumber(e.expiry) =>
            /\ \A t \in timers : t.key # e.key
            /\ ( \/ now' # now
                 \/ IsCall("timer")
                 \/ IsCall("microtask")
                 \/ IsCall("clearExpiry") \/ IsCall("setMinimumExpiry")
                 \/ last'.key # e.key /\ ( \/ IsCall("set") \/ IsCall("delete")
                                           \/ IsCall("expire") \/ IsCall("setExpiry") ) )
               => e \in Entries(c2)
            /\ e \notin Entries(c2)
               => \/ IsCall("clear") \/ IsCall("expireAll")
                  \/ IsCallOn("delete", e.key) \/ IsCallOn("expire", e.key)
                  \/ IsCallOn("set", e.key) \/ IsCallOn("setExpiry", e.key)
C32_NoExpiryStays ==
    [][/\ C32_Step(emap, emap', {MapView(t) : t \in emap.timers})
       /\ C32_Step(eset, eset', {SetView(t) : t \in eset.timers})]_vars
C32_Witness ==
    /\ last.op = "timer" /\ now >= 1
    /\ \E g \in last.gone : IsNumber(g.expiry)
    /\ Size(emap) = 1 /\ Size(eset) = 1
    /\ \A e \in Entries(emap) \cup Entries(eset) : ~IsNumber(e.expiry) /\ e.id = 1

\* C33: has, get, getExpiry, size and the iterators are pure reads: a
\* call leaves the keys, the values, the expiries, the armed timers and the
\* iteration order as they were, and returns what the container holds; get
\* returns undefined for an absent key.
ReadOps == {"has", "get", "getExpiry", "size", "next"} \cup IteratorNames
C33_Step ==
    last'.op \in ReadOps /\ now' = now =>
        /\ [emap' EXCEPT !.iter = emap.iter] = emap
        /\ [eset' EXCEPT !.iter = eset.iter] = eset
        /\ last'.op \notin IteratorNames \cup {"next"}
              => emap'.iter = emap.iter /\ eset'.iter = eset.iter
        /\ \A k \in Keys :
              /\ IsCallOn("has", k)
                    => /\ last'.mret = JsBool(Has(emap, k))
                       /\ last'.sret = JsBool(Has(eset, k))
              /\ IsCallOn("get", k)
                    => last'.mret = IF Has(emap, k) THEN JsMapGet(emap.map, k).value
                                    ELSE "undefined"
              /\ IsCallOn("getExpiry", k)
                    => /\ last'.mret = ExpiryOf(emap, k)
                       /\ last'.sret = ExpiryOf(eset, k)
        /\ IsCall("size") => last'.mret = Size(emap) /\ last'.sret = Size(eset)
        /\ IsCall("next")
              => /\ last'.mret.done
                    \/ \E e \in Entries(emap) :
                          last'.mret.value = MapElement(emap.iter.which, e)
                 /\ last'.sret.done
                    \/ \E e \in Entries(eset) :
                          last'.sret.value = SetElement(eset.iter.which, e)
C33_PureReads == [][C33_Step]_vars
C33_Witness ==
    /\ last.op = "get" /\ last.mret = "b"
    /\ now = 1 /\ ExpiryOf(emap, last.key) = 1 /\ Armed(emap, TimerOf(emap, last.key))
    /\ Size(emap) = 2 /\ Size(eset) = 2

\* C34: while an asynchronous expiry callback of a key is in flight, a set/add
\* of that key creates an independent entry: the completion or failure of
\* the callback in flight, and the microtasks that follow it, leave the
\* entries, their expiries and the armed timers as they were and start no
\* callback, and the timer or expire of
\* the new entry starts the new entry's callback exactly once.
C34_Step(c, c2) ==
    /\ IsCall("settle") \/ IsCall("microtask") =>
          /\ c2.map = c.map
          /\ c2.timers = c.timers
          /\ c2.invoked = c.invoked
    /\ \A e \in Entries(c), r \in c.inflight :
          r.key = e.key =>
              /\ r.id # e.id
              /\ c.invoked[e.id] = 0
              /\ IsCallOn("timer", e.timer) \/ IsCallOn("expire", e.key)
                    => c2.invoked[e.id] = Count(e) /\ ~Has(c2, e.key) /\ r \in c2.inflight
    /\ \A id \in Ids : c2.invoked[id] <= 1
C34_IndependentEntry == [][C34_Step(emap, emap') /\ C34_Step(eset, eset')]_vars
C34_Witness ==
    /\ last.op = "timer" /\ last.key = 2
    /\ \E g \in last.gone : g.cb
    /\ emap.invoked[2] = 1 /\ eset.invoked[2] = 1
    /\ \E r \in emap.inflight \cap eset.inflight, k \in Keys :
          r.id = 1 /\ r.key = k /\ ~Has(emap, k) /\ ~Has(eset, k) /\ Size(emap) = 0

\* C35 as stated: setExpiry and setMinimumExpiry on a present key leave the
\* iteration order of all keys unchanged, the position of the affected key
\* included.
C35_Original ==
    [][IsCall("setExpiry") \/ IsCall("setMinimumExpiry")
         => /\ JsMapKeys(emap'.map) = JsMapKeys(emap.map)
            /\ JsMapKeys(eset'.map) = JsMapKeys(eset.map)]_vars

C35_Without(keys, key) == LET Other(k) == k # key IN SelectSeq(keys, Other)

\* The entry of key is re-inserted with a new expiry and timer: same keys,
\* same values and callback, every other entry and timer as it was, the
\* other keys in their order and key after them.
C35_Reinserted(c, c2, key, ms) ==
    /\ JsMapKeys(c2.map) = C35_Without(JsMapKeys(c.map), key) \o <<key>>
    /\ \A e \in Entries(c) : e.key # key => e \in Entries(c2)
    /\ LET e == JsMapGet(c.map, key)
       IN [JsMapGet(c2.map, key) EXCEPT !.expiry = e.expiry, !.timer = e.timer,
                                        !.id = e.id] = e
    /\ ExpiryOf(c2, key) = now + ms
    /\ ArmedAt(c2, TimerOf(c2, key), now + ms)
    /\ ~Armed(c2, TimerOf(c, key))
    /\ {t \in c2.timers : t.handle # TimerOf(c2, key)}
          = {t \in c.timers : t.handle # TimerOf(c, key)}

C35_Step(c, c2) ==
    /\ IsCall("setExpiry") =>
          \A k \in Keys, ms \in ExpiryMsValues :
              SetExpiry(k, ms) =>
                  IF Has(c, k) THEN C35_Reinserted(c, c2, k, ms) ELSE c2 = c
    /\ IsCall("setMinimumExpiry") =>
          \A k \in Keys, ms \in ExpiryMsValues :
              SetMinimumExpiry(k, ms) =>
                  IF IsNumber(ExpiryOf(c, k)) /\ now + ms > ExpiryOf(c, k)
                  THEN C35_Reinserted(c, c2, k, ms)
                  ELSE c2 = c

\* C35 (amended): setExpiry on a present key, and setMinimumExpiry when it
\* extends the expiry, change the entry's expiry and timer and move the key
\* to the end of the iteration order; the set of keys, every value and the
\* relative order of the other keys are unchanged.  A setMinimumExpiry that
\* does not extend changes nothing.
C35_ExpiryUpdate == [][C35_Step(emap, emap') /\ C35_Step(eset, eset')]_vars
C35_Witness ==
    /\ last.op = "setExpiry" /\ last.mret = "true" /\ last.sret = "true"
    /\ Size(emap) = 2 /\ Size(eset) = 2
    /\ \E k \in Keys :
          /\ JsMapKeys(emap.map)[2] = k /\ JsMapKeys(eset.map)[2] = k
          /\ last.key = k
          /\ JsMapGet(emap.map, k).id = 3
          /\ \E e \in Entries(emap) : e.key # k /\ e.id = 2

C36_Listeners(em, p) ==
    [name \in EventNames |-> LET Is(q) == q = p IN SelectSeq(em[name], Is)]

\* C36: a resolveWhen promise settles once: after it has resolved, been
\* cancelled or timed out, no event, cancel() or timer changes its outcome,
\* a cancel() then changes nothing at all, and its timer is not armed; an
\* event whose arguments the condition rejects leaves the promise pending
\* with its listeners registered.
C36_Step(p) ==
    /\ whens[p].state \in {"resolved", "rejected"} =>
          /\ whens'[p] = whens[p]
          /\ ~IsNumber(whens[p].timer)
          /\ IsCallOn("cancel", p) => emitter' = emitter /\ whens' = whens
    /\ whens[p].state = "pending" /\ whens'[p].state # "pending" =>
          \/ IsCallOn("cancel", p) \/ IsCallOn("timeout", p)
          \/ /\ IsCall("emit")
             /\ \E i \in 1..Len(whens[p].eventNames) : whens[p].eventNames[i] = last'.mret
             /\ whens[p].hasCondition => p \in last'.gone
    /\ /\ whens[p].state = "pending" /\ IsCall("emit")
       /\ whens[p].hasCondition /\ p \notin last'.gone
       => /\ whens'[p] = whens[p]
          /\ C36_Listeners(emitter', p) = C36_Listeners(emitter, p)
          /\ Registered(emitter', p)
C36_SettlesOnce == [][\A p \in Whens : C36_Step(p)]_vars
C36_Witness ==
    /\ last.op = "emit"
    /\ \E p, q \in Whens :
          /\ whens[p].state = "pending" /\ whens[p].hasCondition
          /\ p \notin last.gone
          /\ Len(emitter[last.mret]) = 2
          /\ \A i \in 1..2 : emitter[last.mret][i] = p
          /\ whens[q].state = "resolved" /\ whens[q].hasCondition
          /\ \E i \in 1..Len(whens[q].eventNames) : whens[q].eventNames[i] = last.mret

C38_Safe(p) ==
    IsRejectWhen(whens[p]) =>
        /\ whens[p].outer \in {"pending", "rejected"}
        /\ whens[p].outer = "rejected" =>
              /\ ~Registered(emitter, p)
              /\ ~IsNumber(whens[p].timer)
              /\ whens[p].state \in {"resolved", "rejected"}
              /\ whens[p].state = "rejected" => whens[p].outerReason = whens[p].reason
              /\ whens[p].state = "resolved" =>
                    whens[p].outerReason \notin {"Timeout", "Cancelled", "none"}

\* C38: a rejectWhen promise is pending or rejected, never fulfilled; once
\* rejected none of its listeners is on the emitter and its timer is not
\* armed; after a matching event it rejects, after its timeout it rejects
\* with Error("Timeout") and after cancel() with Error("Cancelled").
C38_NeverFulfils ==
    /\ [][\A p \in Whens : C38_Safe(p)']_vars
    /\ \A p \in Whens : \A reason \in {"args", "Timeout", "Cancelled"} :
          (IsRejectWhen(whens[p]) /\ whens[p].reason = reason)
             ~> (/\ IsRejectWhen(whens[p])
                 /\ whens[p].outer = "rejected"
                 /\ reason # "args" => whens[p].outerReason = reason)
C38_Witness ==
    \E p, q \in Whens :
        /\ IsRejectWhen(whens[p]) /\ IsRejectWhen(whens[q])
        /\ whens[p].state = "resolved" /\ whens[p].outer = "rejected"
        /\ whens[p].outerReason = "result" /\ Len(whens[p].eventNames) = 2
        /\ whens[q].state = "rejected" /\ whens[q].outer = "rejected"
        /\ whens[q].outerReason = "Timeout"

C37_Waiting(w) == tasks[w].op = "acquire" /\ tasks[w].result = "pending"
C37_Acquired(w) == tasks[w].op = "acquire" /\ tasks[w].result = "true"

\* C37 as stated: when every holder eventually calls release(), every
\* caller blocked in acquire() with the infinite timeout eventually
\* resolves to true.
C37_Original == \A w \in Callers : C37_Waiting(w) ~> C37_Acquired(w)

\* C37 (amended): when every holder eventually calls release() and only
\* finitely many calls of acquire() are made, every caller blocked in
\* acquire() with the infinite timeout eventually resolves to true.
C37_FinitelyManyCalls ==
    \A w \in Callers :
        \/ []<><<\E v \in Callers : AcquireInfinite(v)>>_vars
        \/ C37_Waiting(w) ~> C37_Acquired(w)
C37_Witness ==
    \E w, v \in Callers :
        /\ C37_Acquired(w) /\ tasks[w].chain = "timer" /\ owned
        /\ C37_Waiting(v) /\ tasks[v].pc = "delay" /\ tasks[v].due > now

====
